---- MODULE Spec2Model ----
(***************************************************************************)
(* Model of the request orchestrator, quota governor, message capture and  *)
(* indexing, daily digest and scheduler of the Telegram LLM bot            *)
(* (Belidor/gaming_chat_bot).                                              *)
(*                                                                         *)
(* Every handler runs on its own goroutine; the points where it can be     *)
(* interleaved with other handlers are its calls to the store, the         *)
(* retriever and the generator, so each such call is one action.  The      *)
(* store and the external services may fail: every call draws its outcome  *)
(* from the outcomes the client library can report.                        *)
(***************************************************************************)
EXTENDS Integers, Sequences, FiniteSets, Bags, TLC

VARIABLES
    today,          \* civil date of time.Now().In(l.timezone), as a day number
    daily_limits,   \* table daily_limits: [user -> [date -> [pro, flash]]]
    request_logs,   \* table request_logs: bag of inserted rows (ids left out)
    req,            \* per handleMention invocation: position and locals
    peak,           \* history: per user, largest number of requests that were
                    \* at once between quota check and quota commit
    chk,            \* CheckLimit as a function: inputs and result
    chat_messages,  \* table chat_messages: sequence of rows, the id is the index
    cap,            \* per SaveChatMessage call: position and locals
    sync,           \* per indexing run: position and the rows it fetched
    AllowedChatIDs, \* cfg.AllowedChatIDs: the list of allowed chat ids
    daily_summaries,\* table daily_summaries: sequence of rows
    dig,            \* per processChatSummaryWithForce call: position and locals
    now,            \* time.Now(), in clock units
    sched,          \* per scheduler loop: position, timer, ticker and fires
    ctxCancelled,   \* cancel() of main's context has been called
    retry,          \* one call of a store, embedder or generator operation:
                    \* position in its retry loop, attempts and waits so far
    idx,            \* history: per indexing run, what it found and did
    cmd,            \* the /sync command: its handler, the goroutine it
                    \* starts and the replies sent
    shut,           \* main, Bot.Start and the handlers around a shutdown
    send,           \* per sendMessageWithContext call: the caller, the
                    \* goroutine that sends, resultChan and the context
    lazy,           \* the genaiClient, its mutex and the creations of each
                    \* service client, and the getClient calls under way
    msg,            \* per handleMessage invocation: the message and position
    fn              \* a function of the program on its own: input and result

vars == <<today, daily_limits, request_logs, req, peak, chk, chat_messages, cap, sync,
          AllowedChatIDs, daily_summaries, dig, now, sched, ctxCancelled, retry, idx, cmd, shut, send,
          lazy, msg, fn>>

orchVars == <<today, daily_limits, request_logs, req, peak>>
captureVars == <<chat_messages, cap, sync>>
digestVars == <<AllowedChatIDs, daily_summaries, dig>>
schedVars == <<now, sched, ctxCancelled>>
moreVars == <<msg, fn>>
svcVars == <<retry, idx, cmd, shut, send, lazy, moreVars>>

----------------------------------------------------------------------------
(* Bounds of the model *)

NReq == 2               \* handleMention invocations
NCap == 2               \* SaveChatMessage calls
NMsg == 2               \* platform message ids 1..NMsg
SyncBatchSize == 1      \* cfg.RAG.EmbeddingsBatchSize (any positive value)
SyncMaxMessages == 2    \* rows one indexing run takes (any positive value)
MaxCount == 3           \* counts 0..MaxCount given to CheckLimit
MaxLimit == 2           \* caps 1..MaxLimit given to CheckLimit
NUsers == 1             \* authors
MaxDay == 1             \* civil dates 0..MaxDay
ProDailyLimit == 1      \* cfg.ProDailyLimit (any positive value)
FlashDailyLimit == 1    \* cfg.FlashDailyLimit (any positive value)

NDig == 2               \* processChatSummaryWithForce calls
NChats == 2             \* chats of the digest and the scheduler
MaxAllowed == 2         \* entries of TELEGRAM_ALLOWED_CHAT_IDS
MaxNow == 9             \* the clock runs from 0 to MaxNow
MaxRunDur == 3          \* clock units one run of the indexing job can take

Req == 1..NReq
Dig == 1..NDig
Jobs == {"summary", "sync"}     \* runSummaryScheduler, runSyncScheduler
DigestChats == {0 - (1000 + i) : i \in 1..NChats}
Cap == 1..NCap
MsgIds == 1..NMsg
Chats == {-1001}           \* an allowed chat id
Users == 1..NUsers
Dates == 0..MaxDay

(* Program constants *)

maxRetries == 2         \* storage.withRetry
llmMaxRetries == 3      \* llm.generateWithRetry

ModelPro == "gemini-2.5-pro"
ModelFlash == "gemini-2.0-flash"

----------------------------------------------------------------------------
(* Helpers *)

Max(a, b) == IF a >= b THEN a ELSE b

\* fmt.Sprintf over a template given as a sequence of tokens; "%s" takes the
\* next argument, a verb without argument prints %!s(MISSING).
RECURSIVE Sprintf(_, _)
Sprintf(tpl, args) ==
    IF tpl = <<>> THEN <<>>
    ELSE IF Head(tpl) = "%s"
         THEN (IF args = <<>> THEN <<"%!s(MISSING)">> ELSE <<Head(args)>>)
              \o Sprintf(Tail(tpl), IF args = <<>> THEN <<>> ELSE Tail(args))
         ELSE <<Head(tpl)>> \o Sprintf(Tail(tpl), args)

SystemPromptTemplate ==
    <<"ANSWER_THE_QUESTION_MAX_3500", "QUESTION:", "%s">>

SystemPromptWithRAGTemplate ==
    <<"ASSISTANT_WITH_CHAT_HISTORY", "%s", "USER_QUESTION:", "%s",
      "USE_HISTORY_IF_RELEVANT", "MAX_3500">>

----------------------------------------------------------------------------
(* Store facade: quota counters *)

\* Outcomes of one write call to the store as the client sees it:
\*   ok   - applied, response received
\*   fail - not applied, error (or empty RPC result)
\*   lost - applied by the store, but the response did not arrive
RpcOutcome == {"ok", "fail", "lost"}

\* Outcomes of the get_daily_limit RPC as the client sees it.
ReadOutcome == {"ok", "empty", "unparseable"}

ZeroLimit == [pro |-> 0, flash |-> 0]

\* SQL get_daily_limit: the row's counts, (0, 0) when there is no row.  A row
\* never holds (0, 0), so the absent row is the row of zeros.
get_daily_limit(table, user, date) == table[user][date]

\* storage.GetDailyLimit: an empty or unparseable RPC result yields zero
\* counts and no error.
GetDailyLimit(table, user, date, rpc) ==
    IF rpc = "empty" THEN ZeroLimit
    ELSE IF rpc = "unparseable" THEN ZeroLimit
    ELSE get_daily_limit(table, user, date)

\* SQL increment_daily_limit: insert the row with the tier at 1, or bump the
\* tier's count on conflict.
increment_daily_limit(table, user, date, modelTypeStr) ==
    IF modelTypeStr = "pro"
    THEN [table EXCEPT ![user][date].pro = @ + 1]
    ELSE [table EXCEPT ![user][date].flash = @ + 1]

\* storage.IncrementLimit: the tier name sent to the RPC.
modelTypeStrOf(modelType) == IF modelType = ModelPro THEN "pro" ELSE "flash"

\* storage.withRetry, one pass of the loop at the given attempt: "cancelled"
\* when the context is done in the backoff wait (fn is not called), "ok" when
\* fn succeeded, "retry" when it failed and attempts remain, else "exhausted".
withRetry(attempt, ctxDone, fnFailed) ==
    IF attempt > 0 /\ ctxDone THEN "cancelled"
    ELSE IF ~fnFailed THEN "ok"
    ELSE IF attempt < maxRetries THEN "retry"
    ELSE "exhausted"

----------------------------------------------------------------------------
(* Quota governor *)

\* CheckLimit comparing the remaining counts with < 0 instead of <= 0.
CheckLimit_OffByOne(limits, proDailyLimit, flashDailyLimit) ==
    LET proRemaining == proDailyLimit - limits.pro
        flashRemaining == flashDailyLimit - limits.flash
    IN  IF proRemaining < 0 /\ flashRemaining < 0
        THEN [Allowed |-> FALSE, ModelToUse |-> "",
              ProRemaining |-> 0, FlashRemaining |-> 0]
        ELSE [Allowed |-> TRUE,
              ModelToUse |-> IF proRemaining > 0 THEN ModelPro ELSE ModelFlash,
              ProRemaining |-> proRemaining, FlashRemaining |-> flashRemaining]

\* ratelimit.CheckLimit on the counts read from the store.
CheckLimit(limits, proDailyLimit, flashDailyLimit) ==
    LET proRemaining == proDailyLimit - limits.pro
        flashRemaining == flashDailyLimit - limits.flash
    IN  IF proRemaining <= 0 /\ flashRemaining <= 0
        THEN [Allowed |-> FALSE, ModelToUse |-> "",
              ProRemaining |-> 0, FlashRemaining |-> 0]
        ELSE [Allowed |-> TRUE,
              ModelToUse |-> IF proRemaining > 0 THEN ModelPro ELSE ModelFlash,
              ProRemaining |-> proRemaining, FlashRemaining |-> flashRemaining]

----------------------------------------------------------------------------
(* Retrieval and generation *)

\* What rag.Searcher.Search can return: disabled or no hit (empty context),
\* a rendered context, or an error of the embedder or of the store.
SearchOutcome == {"disabled", "empty", "hit", "embed_error", "store_error"}

RenderedContext == "RELEVANT_CHAT_HISTORY"

Search(outcome) ==
    IF outcome \in {"embed_error", "store_error"}
    THEN [err |-> TRUE, Context |-> ""]
    ELSE [err |-> FALSE,
          Context |-> IF outcome = "hit" THEN RenderedContext ELSE ""]

\* handleMention: the context passed on after Search.
ragContextOf(res) == IF res.err THEN "" ELSE res.Context

\* handleMention giving up when Search returns an error.
afterSearch_AbortOnError(res) == IF res.err THEN "failed" ELSE "gen"

\* handleMention: where the handler goes after Search.
afterSearch(res) == "gen"

\* llm.generate: the prompt sent for a request.
generatePrompt(text, ragContext) == Sprintf(SystemPromptTemplate, <<text>>)

\* llm.generateWithRetry from the given attempt on; outs[i] is the result of
\* the i-th call of generate, dones[i] whether the context is done in the
\* wait before the (i+1)-th call.
RECURSIVE generateWithRetry(_, _, _)
generateWithRetry(attempt, outs, dones) ==
    IF attempt > llmMaxRetries
    THEN [Text |-> "", Error |-> "failed after attempts"]
    ELSE IF attempt > 0 /\ dones[attempt]
    THEN [Text |-> "", Error |-> "context done"]
    ELSE IF outs[attempt + 1] = "ok"
    THEN [Text |-> "ANSWER", Error |-> ""]
    ELSE generateWithRetry(attempt + 1, outs, dones)

\* handleMention committing the quota without looking at llmResp.Error.
afterGenerate_NoErrorCheck(llmResp) == "incr"

\* handleMention: where the handler goes after GenerateResponse.
afterGenerate(llmResp) == IF llmResp.Error # "" THEN "logfail" ELSE "incr"

\* handleMention going on without looking at limitResult.Allowed.
afterCheckLimit_NoDenyCheck(limitResult) == "rag"

\* handleMention: where the handler goes after CheckLimit.
afterCheckLimit(limitResult) == IF ~limitResult.Allowed THEN "denied" ELSE "rag"

----------------------------------------------------------------------------
(* Request orchestrator: handleMention *)

\* The locals of one handleMention invocation.  A local is kept while the
\* handler can still use it and is reset once it is dead: the retrieval result
\* when the generator request has been sent, the dates when the quota commit
\* has returned, everything but the replies when the handler returns.
\*   checkDate, applied, ragErr and incCalled are history: CheckLimit does not
\*   return its date, applied counts the increments the store performed for
\*   this request, ragErr remembers that Search returned an error and
\*   incCalled that IncrementUsage was called.
ReqIdle ==
    [pc |-> "idle", user |-> 0, text |-> "",
     allowed |-> FALSE, model |-> "", checkDate |-> -1,
     ragErr |-> FALSE, ragContext |-> "",
     genCalled |-> FALSE, prompt |-> <<>>, llmErr |-> "", llmText |-> "",
     attempt |-> 0, incCalled |-> FALSE, incDate |-> -1, applied |-> 0,
     replies |-> <<>>]

\* Requests of a user that passed the quota check and have not finished the
\* quota commit.
InFlight(rq, u) ==
    {r \in Req : rq[r].user = u /\ rq[r].pc \in {"rag", "gen", "incr"}}

NoCheck == [a |-> 0, b |-> 0, A |-> 0, B |-> 0, done |-> FALSE, res |-> <<>>]

OrchInit ==
    /\ today = 0
    /\ daily_limits \in [Users -> [Dates -> [pro : 0..ProDailyLimit,
                                             flash : 0..FlashDailyLimit]]]
    /\ \A u \in Users : \A d \in Dates : d > 0 => daily_limits[u][d] = ZeroLimit
    /\ request_logs = EmptyBag
    /\ req = [r \in Req |-> ReqIdle]
    /\ peak = [u \in Users |-> 0]

\* Midnight in the configured timezone passes.
Tick ==
    /\ today < MaxDay
    /\ today' = today + 1
    /\ UNCHANGED <<daily_limits, request_logs, req, peak>>

\* handleMention up to and including limiter.CheckLimit: extract the question,
\* read today's counts, decide.
handleMention_CheckLimit(r) ==
    /\ req[r].pc = "idle"
    /\ \A r0 \in Req : r0 < r => req[r0].pc # "idle"    \* updates are taken in order
    /\ \E u \in Users, questionText \in {"", "QUESTION"}, rpc \in ReadOutcome :
        IF questionText = ""
        THEN /\ req' = [req EXCEPT ![r].pc = "noquestion", ![r].user = u,
                                   ![r].replies = Append(@, "ask")]
             /\ UNCHANGED peak
        ELSE LET dateStr == today
                 limits == GetDailyLimit(daily_limits, u, dateStr, rpc)
                 limitResult == CheckLimit(limits, ProDailyLimit, FlashDailyLimit)
                 next == afterCheckLimit(limitResult)
                 rq == [req EXCEPT
                          ![r].pc = next,
                          ![r].user = u,
                          ![r].text = questionText,
                          ![r].checkDate = IF next = "denied" THEN -1 ELSE dateStr,
                          ![r].allowed = limitResult.Allowed,
                          ![r].model = limitResult.ModelToUse,
                          ![r].replies = IF limitResult.Allowed THEN @
                                         ELSE Append(@, "deny")]
             IN  /\ req' = rq
                 /\ peak' = [peak EXCEPT ![u] = Max(@, Cardinality(InFlight(rq, u)))]
    /\ UNCHANGED <<today, daily_limits, request_logs>>

\* handleMention: ragSearcher.Search and what the handler keeps of it.
handleMention_Search(r) ==
    /\ req[r].pc = "rag"
    /\ \E outcome \in SearchOutcome :
        LET res == Search(outcome)
        IN  req' = [req EXCEPT ![r].pc = afterSearch(res),
                                ![r].ragErr = res.err,
                                ![r].ragContext = ragContextOf(res)]
    /\ UNCHANGED <<today, daily_limits, request_logs, peak>>

\* handleMention: llmClient.GenerateResponse with its retries; on failure the
\* error reply is sent before the failed request is logged.
handleMention_GenerateResponse(r) ==
    /\ req[r].pc = "gen"
    /\ \E firstOk \in 0..(llmMaxRetries + 1), firstDone \in 0..llmMaxRetries :
        LET outs == [i \in 1..(llmMaxRetries + 1) |->
                        IF i = firstOk THEN "ok" ELSE "err"]
            dones == [i \in 1..llmMaxRetries |-> i = firstDone]
            llmResp == generateWithRetry(0, outs, dones)
            next == afterGenerate(llmResp)
        IN  req' = [req EXCEPT
                      ![r].pc = next,
                      ![r].genCalled = TRUE,
                      ![r].prompt = generatePrompt(req[r].text, req[r].ragContext),
                      ![r].ragContext = "",
                      ![r].llmErr = llmResp.Error,
                      ![r].llmText = llmResp.Text,
                      ![r].checkDate = IF next = "incr" THEN @ ELSE -1,
                      ![r].attempt = 0,
                      ![r].replies = IF llmResp.Error # "" THEN Append(@, "error")
                                     ELSE @]
    /\ UNCHANGED <<today, daily_limits, request_logs, peak>>

\* handleMention: limiter.IncrementUsage -> storage.IncrementLimit, one pass of
\* its retry loop.  The date is taken from the clock when IncrementUsage is
\* entered.  The handler goes on to log the request whatever the result.
handleMention_IncrementUsage(r) ==
    /\ req[r].pc = "incr"
    /\ \E ctxDone \in BOOLEAN, rpc \in RpcOutcome :
        LET q == req[r]
            dateStr == IF q.attempt = 0 THEN today ELSE q.incDate
            step == withRetry(q.attempt, ctxDone, rpc # "ok")
            called == step # "cancelled"
            hit == called /\ rpc \in {"ok", "lost"}
        IN  /\ daily_limits' =
                  IF hit
                  THEN increment_daily_limit(daily_limits, q.user, dateStr,
                                             modelTypeStrOf(q.model))
                  ELSE daily_limits
            /\ req' = [req EXCEPT
                         ![r].pc = IF step = "retry" THEN "incr" ELSE "log",
                         ![r].attempt = IF step = "retry" THEN @ + 1 ELSE 0,
                         ![r].incCalled = TRUE,
                         ![r].checkDate = IF step = "retry" THEN @ ELSE -1,
                         ![r].incDate = IF step = "retry" THEN dateStr ELSE -1,
                         ![r].applied = IF hit THEN @ + 1 ELSE @]
    /\ UNCHANGED <<today, request_logs, peak>>

\* The row handleMention passes to storage.LogRequest (req stands for the
\* fields that tell the requests apart: author, text and created_at).
RequestLog(r, q) ==
    [req |-> r, user_id |-> q.user, request_text |-> q.text,
     response_text |-> q.llmText, model_used |-> q.model,
     error_message |-> q.llmErr]

\* storage.withRetry run from the given attempt to its return: whether it
\* returns an error and how many of its calls the store performed.
RECURSIVE withRetryAll(_, _, _)
withRetryAll(attempt, outs, dones) ==
    LET step == withRetry(attempt, dones[attempt + 1], outs[attempt + 1] # "ok")
        hit == IF step # "cancelled" /\ outs[attempt + 1] \in {"ok", "lost"}
               THEN 1 ELSE 0
    IN  IF step = "retry"
        THEN LET rest == withRetryAll(attempt + 1, outs, dones)
             IN  [err |-> rest.err, hits |-> hit + rest.hits]
        ELSE [err |-> step # "ok", hits |-> hit]

\* What a withRetry loop around a write can come to: the outcome of each
\* attempt, and the backoff, if any, in which ctx.Done() is met.
RetryRuns ==
    {withRetryAll(0, outs,
                  [i \in 1..(maxRetries + 1) |-> i = firstDone + 1 /\ firstDone > 0]) :
        outs \in [1..(maxRetries + 1) -> RpcOutcome], firstDone \in 0..maxRetries}

\* Bag of n copies of one row.
Copies(row, n) == [x \in (IF n > 0 THEN {row} ELSE {}) |-> n]

\* handleMention: storage.LogRequest with its retries, for the successful and
\* for the failed request; the answer is sent after the log of a successful
\* request, and the handler returns.
handleMention_LogRequest(r) ==
    /\ req[r].pc \in {"log", "logfail"}
    /\ \E run \in RetryRuns :
        LET q == req[r]
        IN  /\ request_logs' = request_logs (+) Copies(RequestLog(r, q), run.hits)
            /\ req' = [req EXCEPT ![r] =
                         [ReqIdle EXCEPT
                            !.pc = IF q.pc = "log" THEN "done" ELSE "failed",
                            !.user = q.user,
                            !.allowed = q.allowed,
                            !.ragErr = q.ragErr,
                            !.genCalled = q.genCalled,
                            !.incCalled = q.incCalled,
                            !.prompt = q.prompt,
                            !.replies = IF q.pc = "log"
                                        THEN Append(q.replies, "answer")
                                        ELSE q.replies]]
    /\ UNCHANGED <<today, daily_limits, peak>>

CapIdle == [pc |-> "idle", chat_id |-> 0, message_id |-> 0, attempt |-> 0,
            dupIndexed |-> FALSE]

\* The indexing runs that can be in progress at once: the nightly one of
\* runSyncScheduler and the one handleSyncCommand starts on its own goroutine.
SyncRuns == {"scheduled", "manual"}

SyncIdle == [pc |-> "idle", ids |-> <<>>]

OrchIdle ==
    /\ today = 0
    /\ daily_limits = [u \in Users |-> [d \in Dates |-> ZeroLimit]]
    /\ request_logs = EmptyBag
    /\ req = [r \in Req |-> ReqIdle]
    /\ peak = [u \in Users |-> 0]

CaptureIdle ==
    /\ chat_messages = <<>>
    /\ cap = [c \in Cap |-> CapIdle]
    /\ sync = [j \in SyncRuns |-> SyncIdle]

\* A processChatSummaryWithForce call that has not been made.
DigIdle == [pc |-> "idle", chatID |-> 0, force |-> FALSE, run |-> 0,
            existsCalled |-> FALSE, existed |-> FALSE, genCalled |-> FALSE,
            summaryText |-> 0, wrote |-> FALSE, sent |-> FALSE, logged |-> 0]

DigestIdle ==
    /\ AllowedChatIDs = <<>>
    /\ daily_summaries = <<>>
    /\ dig = [t \in Dig |-> DigIdle]

\* A scheduler loop that has not been started.
SchedOff == [pc |-> "off", started |-> 0, nextRun |-> 0, ticker |-> 0,
             due |-> FALSE, fires |-> <<>>]

SchedIdle ==
    /\ now = 0
    /\ sched = [j \in Jobs |-> SchedOff]
    /\ ctxCancelled = FALSE

\* No call of a retried operation has been made.
RetryIdle == [op |-> "none", pc |-> "idle", attempt |-> 0, calls |-> 0,
              waits |-> <<>>, lastErr |-> "none", err |-> "none",
              ctxDone |-> FALSE, cancelledIn |-> "no"]

\* What an indexing run has found and done: the unindexed rows there were
\* when it read, the batches it has handed to processBatch, the number of
\* the first batch whose embedding failed, whether any of its calls failed.
IdxIdle == [ran |-> FALSE, backlog |-> {}, found |-> 0, batches |-> <<>>,
            failedAt |-> 0, failed |-> FALSE]

\* No /sync command has been received; configured: SetSyncCallback has
\* been called.
CmdIdle == [pc |-> "idle", task |-> "none", configured |-> TRUE, replies |-> <<>>]

\* main is waiting for a signal, Bot.Start is in its update loop, no
\* handler is running.  elapsed: seconds since shutdownCtx was created;
\* cutOff: the handlers that were running when the process exited.
ShutIdle == [main |-> "running", cancelled |-> FALSE, bot |-> "polling",
             done |-> "open", inflight |-> 0, elapsed |-> 0, cutOff |-> 0]

\* The calls of sendMessageWithContext that can be under way at once.
NSend == 2
Sends == 1..NSend

\* A sendMessageWithContext call that has not been made.  mode: the ParseMode of the
\* goroutine's next Send; attempts: the Sends made, with whether each
\* succeeded; ret: what the caller got.
SendIdle == [caller |-> "idle", mode |-> "none", truncated |-> FALSE,
             attempts |-> <<>>, resultChan |-> "empty", ctxDone |-> FALSE,
             ret |-> "none"]

\* The goroutines that can be in getClient at once.
NTasks == 2
Tasks == 1..NTasks

\* The services with a client created on first use: llm.Client,
\* embeddings.Client and summary.Generator.
Services == {"llm", "embeddings", "summary"}

\* After NewClient / NewGenerator: genaiClient is nil (0), the mutex is
\* free (0), nothing has been created and no getClient call is under way.
LazyIdle == [genaiClient |-> [v \in Services |-> 0],
             mu |-> [v \in Services |-> 0],
             created |-> [v \in Services |-> 0],
             call |-> [t \in Tasks |-> [pc |-> "idle", svc |-> "none",
                                        client |-> 0, ret |-> 0]]]

\* The handleMessage invocations that can be under way at once.
NHandle == 1
Handlers == 1..NHandle

\* A handleMessage invocation that has not been made: the message's chat,
\* whether it is a command, has text, mentions the bot; cap and req: the
\* SaveChatMessage call and the handleMention invocation it made (0: none).
MsgIdle == [pc |-> "idle", chat |-> 0, command |-> FALSE, text |-> FALSE,
            mention |-> FALSE, cap |-> 0, req |-> 0]

\* No function is being applied.
NoFn == [name |-> "none", in |-> <<>>, done |-> FALSE, out |-> <<>>]

MoreIdle ==
    /\ msg = [h \in Handlers |-> MsgIdle]
    /\ fn = NoFn

SvcIdle ==
    /\ MoreIdle
    /\ lazy = LazyIdle
    /\ retry = RetryIdle
    /\ idx = [j \in SyncRuns |-> IdxIdle]
    /\ cmd = CmdIdle
    /\ shut = ShutIdle
    /\ send = [m \in Sends |-> SendIdle]

Init ==
    /\ OrchInit
    /\ chk = NoCheck
    /\ CaptureIdle
    /\ DigestIdle
    /\ SchedIdle
    /\ SvcIdle

Next ==
    \/ Tick /\ UNCHANGED <<chk, captureVars, digestVars, schedVars, svcVars>>
    \/ \E r \in Req : handleMention_CheckLimit(r) /\ UNCHANGED <<chk, captureVars, digestVars, schedVars, svcVars>>
    \/ \E r \in Req : handleMention_Search(r) /\ UNCHANGED <<chk, captureVars, digestVars, schedVars, svcVars>>
    \/ \E r \in Req : handleMention_GenerateResponse(r) /\ UNCHANGED <<chk, captureVars, digestVars, schedVars, svcVars>>
    \/ \E r \in Req : handleMention_IncrementUsage(r) /\ UNCHANGED <<chk, captureVars, digestVars, schedVars, svcVars>>
    \/ \E r \in Req : handleMention_LogRequest(r) /\ UNCHANGED <<chk, captureVars, digestVars, schedVars, svcVars>>

Spec == Init /\ [][Next]_vars

----------------------------------------------------------------------------
(* Properties of the orchestrator and the quota governor *)

\* Number of request_logs rows of request r.
LogRows(r) ==
    LET rows == {row \in BagToSet(request_logs) : row.req = r}
    IN  BagCardinality([row \in rows |-> request_logs[row]])

\* The requests a step moves.
Moved(r) == req'[r] # req[r]

\* C1: a quota counter is incremented only in a step of a request whose
\* generator call has returned without error, and a request whose generation
\* failed (error, retries exhausted, cancellation) has incremented no counter.
C1_CommitOnlyAfterSuccess ==
    /\ [][daily_limits' # daily_limits =>
            \E r \in Req :
                /\ req[r].pc = "incr"
                /\ req[r].genCalled
                /\ req[r].llmErr = ""
                /\ req[r].llmText # ""
                /\ req'[r].applied = req[r].applied + 1
                /\ \A r2 \in Req \ {r} : ~Moved(r2)]_vars
    /\ [](\A r \in Req : (req[r].llmErr # "" \/ req[r].pc \in {"logfail", "failed"})
                            => req[r].applied = 0 /\ ~req[r].incCalled)

\* One request has committed its quota after a successful generation while
\* another one's generation has failed.
C1_Witness ==
    \E r1, r2 \in Req :
        /\ req[r1].pc = "log" /\ req[r1].applied = 1 /\ req[r1].llmErr = ""
        /\ req[r2].pc = "logfail" /\ req[r2].llmErr # "" /\ req[r2].genCalled

\* C3: counters never decrease, a request whose generation succeeded has raised
\* the counter of its tier by exactly one when its commit has returned, and
\* nothing else changes a counter.
C3_ExactlyOnePerSuccess ==
    /\ [](\A r \in Req : req[r].pc = "log" => req[r].applied = 1)
    /\ [][\A u \in Users : \A d \in Dates :
            /\ daily_limits'[u][d].pro >= daily_limits[u][d].pro
            /\ daily_limits'[u][d].flash >= daily_limits[u][d].flash]_vars

\* C4: the committed count of a tier exceeds the cap by at most n - 1, n being
\* the largest number of requests of the author that were at once between
\* quota check and quota commit; a request running alone stays within the cap.
C4_OvershootBound ==
    \A u \in Users : \A d \in Dates :
        /\ daily_limits[u][d].pro <= ProDailyLimit + Max(peak[u] - 1, 0)
        /\ daily_limits[u][d].flash <= FlashDailyLimit + Max(peak[u] - 1, 0)

\* C5: the quota commit of a request increments the row of the civil date its
\* quota check read.
C5_CommitSameDate ==
    [][\A r \in Req : \A d \in Dates :
          (req[r].pc = "incr" /\ Moved(r)
           /\ daily_limits'[req[r].user][d] # daily_limits[req[r].user][d])
              => d = req[r].checkDate]_vars

C7_ExactlyOneLogRow ==
    \A r \in Req :
        /\ req[r].pc \in {"done", "failed"} => LogRows(r) = 1
        /\ \A row \in BagToSet(request_logs) :
              row.req = r /\ req[r].pc = "failed" => row.error_message # ""

\* C8: after a retrieval error the handler goes on with an empty context: the
\* generator is called with the context-free prompt, the request fails only
\* if the generation fails, and when the generation succeeds the quota commit
\* is called and the generated answer is the reply.
C8_RetrievalFailureDegrades ==
    \A r \in Req :
        req[r].ragErr =>
            /\ req[r].pc \in {"gen", "incr", "log", "logfail", "done", "failed"}
            /\ req[r].ragContext = ""
            /\ req[r].pc # "gen" => /\ req[r].genCalled
                                    /\ req[r].prompt = Sprintf(SystemPromptTemplate,
                                                               <<"QUESTION">>)
            /\ req[r].pc \in {"logfail", "failed"} => req[r].replies = <<"error">>
            /\ req[r].pc \in {"incr", "log"} => req[r].llmErr = "" /\ req[r].llmText # ""
            /\ req[r].pc \in {"log", "done"} => req[r].incCalled
            /\ req[r].pc = "done" => req[r].replies = <<"answer">>

\* A request whose retrieval failed has been answered, after its quota commit
\* and its log row.
C8_Witness ==
    \E r \in Req :
        /\ req[r].ragErr /\ req[r].pc = "done" /\ req[r].replies = <<"answer">>
        /\ req[r].incCalled /\ LogRows(r) = 1

\* Position of the first occurrence of a token in a sequence, 0 if none.
IndexOf(seq, tok) ==
    IF \E i \in 1..Len(seq) : seq[i] = tok
    THEN CHOOSE i \in 1..Len(seq) : seq[i] = tok /\ \A j \in 1..(i - 1) : seq[j] # tok
    ELSE 0

\* C9: the prompt sent to the generator has the rendered context in front of
\* the question when the context is not empty, and is the context-free
\* template when it is empty.
C9_PromptCarriesContext ==
    [][\A r \in Req :
          (req[r].pc = "gen" /\ Moved(r)) =>
              IF req[r].ragContext # ""
              THEN /\ IndexOf(req'[r].prompt, req[r].ragContext) > 0
                   /\ IndexOf(req'[r].prompt, req[r].ragContext)
                        < IndexOf(req'[r].prompt, req[r].text)
              ELSE req'[r].prompt = Sprintf(SystemPromptTemplate, <<req[r].text>>)]_vars

----------------------------------------------------------------------------
(* CheckLimit as a function of the counts read and the configured caps *)

InitCheckLimit ==
    /\ chk \in [a : 0..MaxCount, b : 0..MaxCount, A : 1..MaxLimit, B : 1..MaxLimit,
                done : {FALSE}, res : {<<>>}]
    /\ OrchIdle
    /\ CaptureIdle
    /\ DigestIdle
    /\ SchedIdle
    /\ SvcIdle

CheckLimitCall ==
    /\ ~chk.done
    /\ chk' = [chk EXCEPT !.done = TRUE,
                          !.res = CheckLimit([pro |-> chk.a, flash |-> chk.b],
                                             chk.A, chk.B)]
    /\ UNCHANGED <<orchVars, captureVars, digestVars, schedVars, svcVars>>

NextCheckLimit == CheckLimitCall

SpecCheckLimit == InitCheckLimit /\ [][NextCheckLimit]_vars

\* C2: with counts (a, b) and caps (A, B) the check denies exactly when a >= A
\* and b >= B; otherwise it admits, with tier A (pro) when a < A and with
\* tier B (flash) when a >= A and b < B.
C2_DenySemantics ==
    chk.done =>
        /\ (~chk.res.Allowed) <=> (chk.a >= chk.A /\ chk.b >= chk.B)
        /\ chk.a < chk.A => chk.res.Allowed /\ chk.res.ModelToUse = ModelPro
        /\ (chk.a >= chk.A /\ chk.b < chk.B) =>
              chk.res.Allowed /\ chk.res.ModelToUse = ModelFlash

\* The check has admitted an author whose tier-A count is at its cap, with
\* tier B.
C2_Witness ==
    /\ chk.done /\ chk.a = chk.A /\ chk.b + 1 = chk.B
    /\ chk.res.Allowed /\ chk.res.ModelToUse = ModelFlash

----------------------------------------------------------------------------
(* Message capture and indexing *)

\* Error texts as sequences of words.
DuplicateKeyErr == <<"duplicate", "key", "value", "violates", "unique", "constraint">>
TransportErr == <<"context", "deadline", "exceeded">>

\* storage.contains on a text given as a sequence of words.
contains(s, substr) == \E i \in 1..Len(s) : s[i] = substr

\* The row SaveChatMessage inserts; created_at is the platform's send time,
\* which grows with the message id.
NewChatMessage(chat, mid, id) ==
    [id |-> id, chat_id |-> chat, message_id |-> mid, message_text |-> "TEXT",
     embedding |-> "NULL", indexed |-> FALSE, created_at |-> mid,
     indexed_at |-> "NULL", writes |-> 0]

\* The insert as an upsert on (chat_id, message_id): the row is overwritten.
insert_chat_message_Upsert(table, chat, mid) ==
    IF \E i \in 1..Len(table) : table[i].chat_id = chat /\ table[i].message_id = mid
    THEN [table |-> [i \in 1..Len(table) |->
                        IF table[i].chat_id = chat /\ table[i].message_id = mid
                        THEN NewChatMessage(chat, mid, i) ELSE table[i]],
          err |-> <<>>]
    ELSE [table |-> Append(table, NewChatMessage(chat, mid, Len(table) + 1)),
          err |-> <<>>]

\* INSERT INTO chat_messages under CONSTRAINT unique_message UNIQUE(chat_id,
\* message_id): the table afterwards and the error, <<>> for none.
insert_chat_message(table, chat, mid) ==
    IF \E i \in 1..Len(table) : table[i].chat_id = chat /\ table[i].message_id = mid
    THEN [table |-> table, err |-> DuplicateKeyErr]
    ELSE [table |-> Append(table, NewChatMessage(chat, mid, Len(table) + 1)),
          err |-> <<>>]

\* SaveChatMessage: whether the closure given to withRetry returns an error
\* for the error of the insert.
saveFailed(err) ==
    IF err = <<>> THEN FALSE
    ELSE IF contains(err, "duplicate") \/ contains(err, "unique") THEN FALSE
    ELSE TRUE

\* bot.saveChatMessage -> storage.SaveChatMessage, one pass of its retry loop;
\* the first pass takes the message of the update.
SaveChatMessage(c) ==
    /\ cap[c].pc \in {"idle", "retry"}
    /\ \A c0 \in Cap : c0 < c => cap[c0].pc # "idle"     \* updates are taken in order
    /\ \E chat \in Chats, mid \in MsgIds, ctxDone \in BOOLEAN, rpc \in RpcOutcome :
        LET k == cap[c]
            chat_id == IF k.pc = "idle" THEN chat ELSE k.chat_id
            message_id == IF k.pc = "idle" THEN mid ELSE k.message_id
            ins == insert_chat_message(chat_messages, chat_id, message_id)
            err == IF rpc = "ok" THEN ins.err ELSE TransportErr
            step == withRetry(k.attempt, ctxDone, saveFailed(err))
            reached == step # "cancelled" /\ rpc \in {"ok", "lost"}
            dup == reached /\ ins.err # <<>>
        IN  /\ chat_messages' = IF reached THEN ins.table ELSE chat_messages
            /\ cap' = [cap EXCEPT ![c] =
                  [pc |-> IF step = "retry" THEN "retry"
                          ELSE IF step = "ok" THEN "ok" ELSE "err",
                   chat_id |-> chat_id,
                   message_id |-> message_id,
                   attempt |-> IF step = "retry" THEN k.attempt + 1 ELSE 0,
                   dupIndexed |-> k.dupIndexed \/
                        (dup /\ \E i \in 1..Len(chat_messages) :
                                    /\ chat_messages[i].chat_id = chat_id
                                    /\ chat_messages[i].message_id = message_id
                                    /\ chat_messages[i].indexed)]]
    /\ UNCHANGED sync

\* SQL get_unindexed_messages: ids of the rows with indexed = FALSE, by
\* created_at ascending, at most batch_size of them.
RECURSIVE byCreatedAt(_, _)
byCreatedAt(table, ids) ==
    IF ids = {} THEN <<>>
    ELSE LET first == CHOOSE i \in ids :
                         \A j \in ids : \/ table[i].created_at < table[j].created_at
                                        \/ (table[i].created_at = table[j].created_at /\ i <= j)
         IN  <<first>> \o byCreatedAt(table, ids \ {first})

\* The SELECT without its LIMIT.
get_unindexed_messages_NoLimit(table, batch_size) ==
    byCreatedAt(table, {i \in 1..Len(table) : ~table[i].indexed})

\* The SELECT ordered by id instead of created_at.
get_unindexed_messages_ById(table, batch_size) ==
    LET ids == {i \in 1..Len(table) : ~table[i].indexed}
        all == [n \in 1..Cardinality(ids) |->
                   CHOOSE i \in ids : Cardinality({k \in ids : k < i}) = n - 1]
    IN  SubSeq(all, 1, IF Len(all) < batch_size THEN Len(all) ELSE batch_size)

get_unindexed_messages(table, batch_size) ==
    LET all == byCreatedAt(table, {i \in 1..Len(table) : ~table[i].indexed})
    IN  SubSeq(all, 1, IF Len(all) < batch_size THEN Len(all) ELSE batch_size)

\* The UPDATE of batch_update_embeddings without indexed = TRUE in its SET
\* list.
batch_update_embeddings_EmbeddingOnly(table, ids) ==
    [i \in 1..Len(table) |->
        IF \E n \in 1..Len(ids) : ids[n] = i
        THEN [table[i] EXCEPT !.embedding = "VEC", !.indexed_at = "SET",
                              !.writes = @ + 1]
        ELSE table[i]]

\* SQL batch_update_embeddings: every listed id that exists gets its
\* embedding, indexed = TRUE and indexed_at = NOW(), whatever the row held;
\* writes counts the UPDATEs that have set the row's embedding.
batch_update_embeddings(table, ids) ==
    [i \in 1..Len(table) |->
        IF \E n \in 1..Len(ids) : ids[n] = i
        THEN [table[i] EXCEPT !.embedding = "VEC", !.indexed = TRUE,
                              !.indexed_at = "SET", !.writes = @ + 1]
        ELSE table[i]]

\* The table after the store has executed the batch_update_embeddings RPC n
\* times with the same arguments.
RECURSIVE BatchUpdateEmbeddings(_, _, _)
BatchUpdateEmbeddings(table, ids, n) ==
    IF n = 0 THEN table
    ELSE BatchUpdateEmbeddings(batch_update_embeddings(table, ids), ids, n - 1)

\* SyncJob.Run: GetUnindexedMessages; nothing to do when it fails or finds
\* no row.
SyncJob_Run(j, readOk) ==
    /\ sync[j].pc = "idle"
    /\ LET messages == IF readOk
                       THEN get_unindexed_messages(chat_messages, SyncMaxMessages)
                       ELSE <<>>
       IN  sync' = [sync EXCEPT ![j] = IF messages = <<>> THEN SyncIdle
                                       ELSE [pc |-> "batch", ids |-> messages]]
    /\ UNCHANGED <<chat_messages, cap>>

\* SyncJob.Run: one pass of the batch loop: processBatch embeds the batch and
\* writes the vectors with BatchUpdateEmbeddings (with its retries); a failed
\* batch is skipped.
SyncJob_processBatchWith(j, embedOk, run) ==
    /\ sync[j].pc = "batch"
    /\ LET ids == sync[j].ids
           n == IF Len(ids) < SyncBatchSize THEN Len(ids) ELSE SyncBatchSize
           batch == SubSeq(ids, 1, n)
           rest == SubSeq(ids, n + 1, Len(ids))
       IN  /\ chat_messages' = IF embedOk
                               THEN BatchUpdateEmbeddings(chat_messages, batch, run.hits)
                               ELSE chat_messages
           /\ sync' = [sync EXCEPT ![j] = IF rest = <<>> THEN SyncIdle
                                          ELSE [pc |-> "batch", ids |-> rest]]
    /\ UNCHANGED cap

SyncJob_processBatch(j, embedOk) ==
    \E run \in RetryRuns : SyncJob_processBatchWith(j, embedOk, run)

InitCapture ==
    /\ CaptureIdle
    /\ OrchIdle
    /\ chk = NoCheck
    /\ DigestIdle
    /\ SchedIdle
    /\ SvcIdle

NextCapture ==
    \/ \E c \in Cap :
            SaveChatMessage(c) /\ UNCHANGED <<orchVars, chk, digestVars, schedVars, svcVars>>
    \/ \E j \in SyncRuns, readOk \in BOOLEAN :
            SyncJob_Run(j, readOk) /\ UNCHANGED <<orchVars, chk, digestVars, schedVars, svcVars>>
    \/ \E j \in SyncRuns, embedOk \in BOOLEAN :
            SyncJob_processBatch(j, embedOk)
                /\ UNCHANGED <<orchVars, chk, digestVars, schedVars, svcVars>>

SpecCapture == InitCapture /\ [][NextCapture]_vars

\* Rows of the identity pair (chat, mid).
RowsOf(chat, mid) ==
    {i \in 1..Len(chat_messages) :
        chat_messages[i].chat_id = chat /\ chat_messages[i].message_id = mid}

\* C10: whatever the sequence or interleaving of SaveChatMessage calls, a
\* (chat, message id) pair never has more than one row, it has exactly one
\* once a call for it has returned without error, and no call changes a row
\* that exists: the indexed flag and the embedding stay as they are.
C10_IdempotentCapture ==
    /\ [](\A chat \in Chats, mid \in MsgIds : Cardinality(RowsOf(chat, mid)) <= 1)
    /\ [](\A c \in Cap : cap[c].pc = "ok"
              => Cardinality(RowsOf(cap[c].chat_id, cap[c].message_id)) = 1)
    /\ [][cap' # cap =>
            /\ Len(chat_messages') >= Len(chat_messages)
            /\ \A i \in 1..Len(chat_messages) : chat_messages'[i] = chat_messages[i]]_vars

\* Two calls for the same pair have returned without error, the later one
\* met the row when it was already indexed, and the row still is.
C10_Witness ==
    \E c1, c2 \in Cap :
        /\ c1 # c2 /\ cap[c1].pc = "ok" /\ cap[c2].pc = "ok"
        /\ cap[c1].chat_id = cap[c2].chat_id /\ cap[c1].message_id = cap[c2].message_id
        /\ cap[c2].dupIndexed
        /\ \A i \in RowsOf(cap[c1].chat_id, cap[c1].message_id) :
              chat_messages[i].indexed /\ chat_messages[i].embedding = "VEC"

\* C11: in every reachable state of the store a chat_messages row has
\* indexed = TRUE if and only if its embedding is present.
C11_IndexedIffEmbedding ==
    \A i \in 1..Len(chat_messages) :
        chat_messages[i].indexed <=> chat_messages[i].embedding # "NULL"

\* An indexing run has written the vector of one row while another captured
\* row is still waiting for its own.
C11_Witness ==
    \E i, k \in 1..Len(chat_messages) :
        /\ chat_messages[i].indexed /\ chat_messages[i].embedding = "VEC"
        /\ ~chat_messages[k].indexed /\ chat_messages[k].embedding = "NULL"

\* C12: no step of capture (duplicates included) or of an indexing run,
\* scheduled or manual, with its retries, takes a row from indexed to
\* unindexed, or removes it.
C12_IndexedIsMonotone ==
    [][\A i \in 1..Len(chat_messages) :
          chat_messages[i].indexed =>
              i <= Len(chat_messages') /\ chat_messages'[i].indexed]_vars

\* A row is indexed after a duplicate of its message was captured while it
\* was indexed and after both indexing runs have written to it.
C12_Witness ==
    \E i \in 1..Len(chat_messages), c \in Cap :
        /\ chat_messages[i].indexed /\ chat_messages[i].writes >= 2
        /\ cap[c].pc = "ok" /\ cap[c].dupIndexed
        /\ cap[c].chat_id = chat_messages[i].chat_id
        /\ cap[c].message_id = chat_messages[i].message_id
        /\ \A j \in SyncRuns : sync[j].pc = "idle"

\* C13: once a row is indexed no step writes its embedding again, also when
\* the scheduled and the manual indexing run overlap.
C13_EmbeddingWrittenOnce ==
    [][\A i \in 1..Len(chat_messages) :
          chat_messages[i].indexed =>
              chat_messages'[i].writes = chat_messages[i].writes]_vars

----------------------------------------------------------------------------
(* Daily digest *)

\* dateStr of runDailySummaries and GenerateSummaryForYesterday: yesterday in
\* the configured timezone; the calls of the model fall on one day.
Yesterday == 0

\* config.getEnvInt64List: the ids are taken as listed, repeated ids are kept.
AllowedLists == UNION {[1..n -> DigestChats] : n \in 1..MaxAllowed}

\* BotConfig.IsAllowedChat
IsAllowedChat_Any(chatID) == TRUE
IsAllowedChat(chatID) == \E i \in 1..Len(AllowedChatIDs) : AllowedChatIDs[i] = chatID

\* storage.GetMessagesForDate: the rows of the chat created on the date, by
\* created_at; every row of the model was sent on Yesterday.
GetMessagesForDate(table, chatID, date) ==
    IF date = Yesterday
    THEN SelectSeq(table, LAMBDA m : m.chat_id = chatID)
    ELSE <<>>

\* Indexes of the daily_summaries rows of (chatID, date).
SummaryRows(table, chatID, date) ==
    {i \in 1..Len(table) : table[i].chat_id = chatID /\ table[i].date = date}

\* storage.SummaryExistsForDate, when the select succeeds.
SummaryExistsForDate(table, chatID, date) == SummaryRows(table, chatID, date) # {}

\* The insert without its on-conflict target and without the unique
\* constraint: a row is added.
save_daily_summary_PlainInsert(table, summary) == Append(table, summary)

\* SaveDailySummary's Insert(data, true, "chat_id,date"): an upsert on
\* CONSTRAINT unique_chat_date UNIQUE(chat_id, date).
save_daily_summary(table, summary) ==
    IF SummaryRows(table, summary.chat_id, summary.date) # {}
    THEN [i \in 1..Len(table) |->
            IF i \in SummaryRows(table, summary.chat_id, summary.date)
            THEN summary ELSE table[i]]
    ELSE Append(table, summary)

\* The duplicate check that skips whenever a digest exists, forced or not.
shouldSkip_IgnoreForce(force, exists) == exists

\* The duplicate check that never skips.
shouldSkip_Never(force, exists) == FALSE

\* processChatSummaryWithForce: if !force { ... if exists { return nil } }
shouldSkip(force, exists) == ~force /\ exists

\* Calls of processChatSummaryWithForce made so far; the next call takes the
\* next slot.
digUsed == Cardinality({t \in Dig : dig[t].pc # "idle"})

\* A per-chat goroutine that waits for the other goroutines of its run and
\* gives up when one of them has failed.
siblingsAllow_AbortOnFailure(t) ==
    \A u \in Dig : (u # t /\ dig[u].run = dig[t].run) => dig[u].pc # "failed"

\* runDailySummaries starts one goroutine per list entry (go func(cid int64))
\* and none of them looks at another.
siblingsAllow(t) == TRUE

\* The daily_summaries row processChatSummaryWithForce builds; the text is
\* named after the call that generated it.
DailySummary(chatID, date, summaryText) ==
    [chat_id |-> chatID, date |-> date, summary_text |-> summaryText]

\* runDailySummaries: one non-forced processChatSummary goroutine per entry of
\* the allowed list, all for yesterday.
runDailySummaries ==
    /\ digUsed + Len(AllowedChatIDs) <= NDig
    /\ dig' = [t \in Dig |->
                IF t > digUsed /\ t <= digUsed + Len(AllowedChatIDs)
                THEN [DigIdle EXCEPT !.pc = "start",
                                     !.chatID = AllowedChatIDs[t - digUsed],
                                     !.run = digUsed + 1]
                ELSE dig[t]]
    /\ UNCHANGED <<AllowedChatIDs, daily_summaries>>

\* handleSummaryCommand -> GenerateSummaryForYesterday: a forced call for the
\* chat of the command.
handleSummaryCommand(chatID) ==
    /\ IsAllowedChat(chatID)
    /\ digUsed < NDig
    /\ dig' = [dig EXCEPT ![digUsed + 1] =
                [DigIdle EXCEPT !.pc = "start", !.chatID = chatID, !.force = TRUE,
                                !.run = digUsed + 1]]
    /\ UNCHANGED <<AllowedChatIDs, daily_summaries>>

\* processChatSummaryWithForce, the duplicate check: SummaryExistsForDate
\* unless forced; an error of the read is returned and logged by the caller.
processChatSummary_CheckExists(t) ==
    /\ dig[t].pc = "start"
    /\ siblingsAllow(t)
    /\ \E rd \in {"ok", "fail"} :
        LET d == dig[t]
            exists == SummaryExistsForDate(daily_summaries, d.chatID, Yesterday)
            err == ~d.force /\ rd = "fail"
        IN  dig' = [dig EXCEPT ![t] = [d EXCEPT
                !.existsCalled = ~d.force,
                !.existed = exists,
                !.pc = IF err THEN "failed"
                       ELSE IF shouldSkip(d.force, exists) THEN "skipped"
                       ELSE "messages",
                !.logged = IF err THEN d.chatID ELSE 0]]
    /\ UNCHANGED <<AllowedChatIDs, daily_summaries>>

\* processChatSummaryWithForce: GetMessagesForDate, return when the day has
\* no message, then GetMostActiveUser.
processChatSummary_GetMessages(t) ==
    /\ dig[t].pc = "messages"
    /\ siblingsAllow(t)
    /\ \E rd1, rd2 \in {"ok", "fail"} :
        LET d == dig[t]
            messages == GetMessagesForDate(chat_messages, d.chatID, Yesterday)
            err == rd1 = "fail" \/ (Len(messages) > 0 /\ rd2 = "fail")
        IN  dig' = [dig EXCEPT ![t] = [d EXCEPT
                !.pc = IF err THEN "failed"
                       ELSE IF Len(messages) = 0 THEN "nomessages"
                       ELSE "generate",
                !.logged = IF err THEN d.chatID ELSE 0]]
    /\ UNCHANGED <<AllowedChatIDs, daily_summaries>>

\* processChatSummaryWithForce: generator.GenerateSummary and
\* formatSummaryMessage.
processChatSummary_GenerateSummary(t) ==
    /\ dig[t].pc = "generate"
    /\ siblingsAllow(t)
    /\ \E out \in {"ok", "fail"} :
        LET d == dig[t]
        IN  dig' = [dig EXCEPT ![t] = [d EXCEPT
                !.genCalled = TRUE,
                !.summaryText = IF out = "ok" THEN t ELSE 0,
                !.pc = IF out = "ok" THEN "save" ELSE "failed",
                !.logged = IF out = "ok" THEN 0 ELSE d.chatID]]
    /\ UNCHANGED <<AllowedChatIDs, daily_summaries>>

\* processChatSummaryWithForce: SaveDailySummary with its retries.
processChatSummary_SaveDailySummary(t) ==
    /\ dig[t].pc = "save"
    /\ siblingsAllow(t)
    /\ \E run \in RetryRuns :
        LET d == dig[t]
        IN  /\ daily_summaries' =
                    IF run.hits > 0
                    THEN save_daily_summary(daily_summaries,
                             DailySummary(d.chatID, Yesterday, d.summaryText))
                    ELSE daily_summaries
            /\ dig' = [dig EXCEPT ![t] = [d EXCEPT
                    !.wrote = run.hits > 0,
                    !.pc = IF run.err THEN "failed" ELSE "send",
                    !.logged = IF run.err THEN d.chatID ELSE 0]]
    /\ UNCHANGED AllowedChatIDs

\* processChatSummaryWithForce: summaryCallback posts the digest to the chat.
processChatSummary_Send(t) ==
    /\ dig[t].pc = "send"
    /\ siblingsAllow(t)
    /\ \E out \in {"ok", "fail"} :
        LET d == dig[t]
        IN  dig' = [dig EXCEPT ![t] = [d EXCEPT
                !.sent = out = "ok",
                !.pc = IF out = "ok" THEN "done" ELSE "failed",
                !.logged = IF out = "ok" THEN 0 ELSE d.chatID]]
    /\ UNCHANGED <<AllowedChatIDs, daily_summaries>>

\* One step of a processChatSummaryWithForce call.
processChatSummaryWithForce(t) ==
    \/ processChatSummary_CheckExists(t)
    \/ processChatSummary_GetMessages(t)
    \/ processChatSummary_GenerateSummary(t)
    \/ processChatSummary_SaveDailySummary(t)
    \/ processChatSummary_Send(t)

\* The chat_messages tables the digest runs start from: at most one message
\* of yesterday per chat.
MessageTables ==
    {<<>>}
    \cup {<<NewChatMessage(c, 1, 1)>> : c \in DigestChats}
    \cup {<<NewChatMessage(c[1], 1, 1), NewChatMessage(c[2], 2, 2)>> :
              c \in {x \in DigestChats \X DigestChats : x[1] > x[2]}}

InitDigest ==
    /\ AllowedChatIDs \in AllowedLists
    /\ chat_messages \in MessageTables
    /\ daily_summaries \in
          {<<>>} \cup {<<DailySummary(c, Yesterday, 0)>> :
                          c \in {x \in DigestChats :
                                    GetMessagesForDate(chat_messages, x, Yesterday) # <<>>}}
    /\ dig = [t \in Dig |-> DigIdle]
    /\ cap = [c \in Cap |-> CapIdle]
    /\ sync = [j \in SyncRuns |-> SyncIdle]
    /\ OrchIdle
    /\ chk = NoCheck
    /\ SchedIdle
    /\ SvcIdle

NextDigest ==
    \/ runDailySummaries /\ UNCHANGED <<orchVars, chk, captureVars, schedVars, svcVars>>
    \/ \E c \in DigestChats :
            handleSummaryCommand(c) /\ UNCHANGED <<orchVars, chk, captureVars, schedVars, svcVars>>
    \/ \E t \in Dig :
            processChatSummaryWithForce(t)
                /\ UNCHANGED <<orchVars, chk, captureVars, schedVars, svcVars>>

SpecDigest == InitDigest /\ [][NextDigest]_vars

\* The calls of the scheduler (non-forced) made for a chat.
Scheduled(chatID) == {t \in Dig : dig[t].pc # "idle" /\ ~dig[t].force /\ dig[t].chatID = chatID}

\* C14: non-forced digest invocations for the same (chat, date), one after
\* the other or overlapping, never leave more than one daily_summaries row
\* for the pair, and exactly one once one of them has written its digest.
C14_OneDigestRow ==
    \A c \in DigestChats :
        /\ Cardinality(SummaryRows(daily_summaries, c, Yesterday)) <= 1
        /\ (\E t \in Scheduled(c) : dig[t].wrote)
              => Cardinality(SummaryRows(daily_summaries, c, Yesterday)) = 1

\* Two overlapping non-forced invocations for one chat have both found no
\* digest and both written theirs, and one row is there.
C14_Witness ==
    \E c \in DigestChats, t1, t2 \in Dig :
        /\ t1 # t2 /\ {t1, t2} \subseteq Scheduled(c)
        /\ dig[t1].wrote /\ dig[t2].wrote
        /\ ~dig[t1].existed /\ ~dig[t2].existed
        /\ Cardinality(SummaryRows(daily_summaries, c, Yesterday)) = 1

\* C15: a non-forced call that finds the digest of (chat, date) in the store
\* calls no generator, writes no row and posts nothing.
C15_SkipWhenDigestExists ==
    \A t \in Dig :
        (dig[t].pc \notin {"idle", "start"} /\ ~dig[t].force /\ dig[t].existed)
            => /\ dig[t].pc \in {"skipped", "failed"}
               /\ ~dig[t].genCalled /\ ~dig[t].wrote /\ ~dig[t].sent

\* A non-forced call has returned nil at the duplicate check, and the digest
\* it met is still the only row of its chat.
C15_Witness ==
    \E t \in Dig :
        /\ ~dig[t].force /\ dig[t].existed /\ dig[t].pc = "skipped"
        /\ \A i \in SummaryRows(daily_summaries, dig[t].chatID, Yesterday) :
              daily_summaries[i].summary_text # t

\* C16: a forced call never reads SummaryExistsForDate and is never skipped;
\* it only ends early without error when the day has no message; its save
\* leaves one row for (chat, date), holding the digest it has just generated,
\* and when it returns nil after the save it has posted that digest.
C16_ForcedRegenerates ==
    /\ [](\A t \in Dig : dig[t].force =>
            /\ ~dig[t].existsCalled /\ dig[t].pc # "skipped"
            /\ dig[t].pc = "nomessages"
                  => GetMessagesForDate(chat_messages, dig[t].chatID, Yesterday) = <<>>
            /\ dig[t].pc = "done" => dig[t].genCalled /\ dig[t].wrote /\ dig[t].sent)
    /\ [][\A t \in Dig :
            (dig[t].force /\ dig[t].pc = "save" /\ dig'[t].pc = "send") =>
                /\ Cardinality(SummaryRows(daily_summaries', dig[t].chatID, Yesterday)) = 1
                /\ \A i \in SummaryRows(daily_summaries', dig[t].chatID, Yesterday) :
                      daily_summaries'[i].summary_text = dig[t].summaryText]_vars

\* A forced call that met an existing digest has regenerated, replaced and
\* posted it.
C16_Witness ==
    \E t \in Dig :
        /\ dig[t].force /\ dig[t].existed /\ dig[t].pc = "done" /\ dig[t].sent
        /\ Cardinality(SummaryRows(daily_summaries, dig[t].chatID, Yesterday)) = 1
        /\ \A i \in SummaryRows(daily_summaries, dig[t].chatID, Yesterday) :
              daily_summaries[i].summary_text = t

\* C17: the non-forced calls for one (chat, date) post at most one digest.
C17_AtMostOnePost ==
    \A c \in DigestChats : Cardinality({t \in Scheduled(c) : dig[t].sent}) <= 1

\* The steps a call can still take.
DigRunning == {"start", "messages", "generate", "save", "send"}

\* C18: a call of a digest run can take its next step whatever has happened
\* to the calls for the other chats, and every failed call has logged the
\* error with its own chat id.
C18_ChatsAreIsolated ==
    \A t \in Dig :
        /\ dig[t].pc \in DigRunning => ENABLED processChatSummaryWithForce(t)
        /\ dig[t].pc = "failed" => dig[t].logged = dig[t].chatID
        /\ dig[t].pc # "failed" => dig[t].logged = 0

\* In one run over two chats the call for one chat has failed and the call
\* for the other has generated, saved and posted its digest.
C18_Witness ==
    \E t1, t2 \in Dig :
        /\ dig[t1].run = dig[t2].run /\ dig[t1].chatID # dig[t2].chatID
        /\ ~dig[t1].force /\ ~dig[t2].force
        /\ dig[t1].pc = "failed" /\ dig[t1].logged = dig[t1].chatID
        /\ dig[t2].pc = "done" /\ dig[t2].sent /\ dig[t2].wrote

----------------------------------------------------------------------------
(* Scheduler *)

\* 24 * time.Hour in clock units, and the units of the day at which the jobs
\* are due: calculateNextRun(7, 0) and calculateNextRun(3, 0).
Period == 3
SummaryAt == 2
SyncAt == 1

RunAt(j) == IF j = "summary" THEN SummaryAt ELSE SyncAt

\* Scheduler.calculateNextRun: the time of day today, or tomorrow when it is
\* not after now.
calculateNextRun(t, at) ==
    LET next == (t - (t % Period)) + at
    IN  IF t >= next THEN next + Period ELSE next

\* Scheduler.Start: both next runs are computed and both loops are started;
\* each blocks in its first select on time.After(time.Until(nextRun)).
Start ==
    /\ \A j \in Jobs : sched[j].pc = "off"
    /\ sched' = [j \in Jobs |->
                  [SchedOff EXCEPT !.pc = "wait", !.started = now,
                                   !.nextRun = calculateNextRun(now, RunAt(j))]]
    /\ UNCHANGED <<now, ctxCancelled>>

\* Time passes by one unit.  runDailySummaries only starts goroutines and
\* returns at once; runRAGSync runs the indexing job on the loop's own
\* goroutine and takes up to MaxRunDur units.  A timer or ticker that expires
\* wakes the loop blocked in the select on it, which starts its job; a tick
\* that finds the loop inside its job waits in the ticker's channel (one
\* place, further ticks are dropped).
Elapse ==
    /\ now < MaxNow
    /\ \A j \in Jobs : sched[j].pc # "off"
    /\ \A j \in Jobs : sched[j].pc = "run" =>
            /\ j = "sync"
            /\ now - sched[j].fires[Len(sched[j].fires)] < MaxRunDur
    /\ now' = now + 1
    /\ sched' = [j \in Jobs |->
          LET s == sched[j]
          IN  IF s.pc = "wait" /\ now + 1 = s.nextRun
              THEN [s EXCEPT !.pc = "run", !.fires = <<now + 1>>]
              ELSE IF s.pc = "loop" /\ now + 1 = s.ticker
              THEN [s EXCEPT !.pc = "run", !.fires = Append(@, now + 1),
                             !.ticker = @ + Period]
              ELSE IF s.pc = "run" /\ s.ticker # 0 /\ now + 1 = s.ticker
              THEN [s EXCEPT !.due = TRUE, !.ticker = @ + Period]
              ELSE s]
    /\ UNCHANGED ctxCancelled

\* runSummaryScheduler / runSyncScheduler: the job returns; after the first
\* run the ticker is created; the loop comes to its select, which takes one
\* of the cases that are ready, or blocks when none is.
runScheduler_Select(j) ==
    /\ sched[j].pc = "run"
    /\ \E case \in {"done", "tick", "block"} :
        LET s == sched[j]
            ticker == IF s.ticker = 0 THEN now + Period ELSE s.ticker
        IN  /\ case = "done" => ctxCancelled
            /\ case = "tick" => s.due
            /\ case = "block" => ~ctxCancelled /\ ~s.due
            /\ sched' = [sched EXCEPT ![j] =
                  IF case = "done" THEN [s EXCEPT !.pc = "stopped", !.ticker = ticker]
                  ELSE IF case = "tick"
                  THEN [s EXCEPT !.pc = "run", !.due = FALSE,
                                 !.fires = Append(@, now), !.ticker = ticker]
                  ELSE [s EXCEPT !.pc = "loop", !.ticker = ticker]]
    /\ UNCHANGED <<now, ctxCancelled>>

\* main: cancel() after a termination signal; the loops blocked in a select
\* take its ctx.Done() case and return.
Cancel ==
    /\ ~ctxCancelled
    /\ \A j \in Jobs : sched[j].pc # "off"
    /\ ctxCancelled' = TRUE
    /\ sched' = [j \in Jobs |->
                  IF sched[j].pc \in {"wait", "loop"}
                  THEN [sched[j] EXCEPT !.pc = "stopped"]
                  ELSE sched[j]]
    /\ UNCHANGED now

InitScheduler ==
    /\ now \in 0..(Period - 1)
    /\ sched = [j \in Jobs |-> SchedOff]
    /\ ctxCancelled = FALSE
    /\ OrchIdle
    /\ chk = NoCheck
    /\ CaptureIdle
    /\ DigestIdle
    /\ SvcIdle

NextScheduler ==
    \/ Start /\ UNCHANGED <<orchVars, chk, captureVars, digestVars, svcVars>>
    \/ Elapse /\ UNCHANGED <<orchVars, chk, captureVars, digestVars, svcVars>>
    \/ \E j \in Jobs :
            runScheduler_Select(j) /\ UNCHANGED <<orchVars, chk, captureVars, digestVars, svcVars>>
    \/ Cancel /\ UNCHANGED <<orchVars, chk, captureVars, digestVars, svcVars>>

SpecScheduler == InitScheduler /\ [][NextScheduler]_vars

\* The next occurrence of the job's time of day strictly after the start.
NextOccurrence(started, at) ==
    CHOOSE x \in (started + 1)..(started + Period) : x % Period = at

\* C19: a job's first fire is at the next occurrence of its time of day
\* after the start, and every later fire is 24 h after the fire before it.
C19_FireTimes ==
    [][\A j \in Jobs :
          Len(sched'[j].fires) > Len(sched[j].fires) =>
              LET n == Len(sched'[j].fires)
                  at == sched'[j].fires[n]
              IN  IF n = 1
                  THEN at = NextOccurrence(sched[j].started, RunAt(j))
                  ELSE at = sched[j].fires[n - 1] + Period]_vars

\* C20: once cancel() has been called no job is started, and no loop is
\* left waiting in a select.
C20_NoStartAfterCancel ==
    /\ [][ctxCancelled => \A j \in Jobs : sched'[j].fires = sched[j].fires]_vars
    /\ [](ctxCancelled => \A j \in Jobs : sched[j].pc \in {"stopped", "run"})

(***************************************************************************)
(* The retry loops of the store, the embedder and the generator            *)
(*                                                                         *)
(* One call of an operation at a time.  Its steps are the calls it makes   *)
(* to the remote service and the select in which it waits out a backoff;   *)
(* the caller's context can be cancelled (or its deadline can pass) at     *)
(* any point.  Durations are in milliseconds.                              *)
(***************************************************************************)

\* maxRetries of the embeddings client's processBatch.
embeddingsMaxRetries == 3

\* The operations: the store's withRetry (behind IncrementLimit,
\* SaveChatMessage, BatchUpdateEmbeddings, ...), the store's GetDailyLimit,
\* the embeddings client's processBatch and the generator's generateWithRetry.
RetryOps == {"withRetry", "GetDailyLimit", "processBatch", "generateWithRetry"}

\* The operations that are written as a loop over attempts.
RetryLoops == {"withRetry", "processBatch", "generateWithRetry"}

\* for attempt := 0; attempt <= maxRetries; attempt++
loopMaxRetries(op) ==
    CASE op = "withRetry" -> maxRetries
      [] op = "processBatch" -> embeddingsMaxRetries
      [] op = "generateWithRetry" -> llmMaxRetries
      [] OTHER -> 0

RECURSIVE Shl1(_)
\* 1 << n
Shl1(n) == IF n = 0 THEN 1 ELSE 2 * Shl1(n - 1)

\* The wait before attempt number `attempt` (attempt > 0):
\* time.Duration(attempt) * 500 * time.Millisecond in the store,
\* time.Duration(1<<uint(attempt-1)) * time.Second in the two clients.
backoff(op, attempt) ==
    IF op = "withRetry" THEN attempt * 500 ELSE Shl1(attempt - 1) * 1000

\* What one call to the service can come back with: the store's fn() and
\* the generator's generate() succeed or return an error; BatchEmbedContents
\* can also succeed with an empty or a missing embedding.
callOutcomes(op) ==
    IF op = "processBatch" THEN {"nil", "err", "invalid"} ELSE {"nil", "err"}

selectBackoff_TimerOnly(ctxDone) == "timer"

\* select { case <-ctx.Done(): ...; case <-time.After(backoff): }
\* A context that is done when the select is entered is its only ready
\* case (the timer has just been armed with a positive duration); a
\* goroutine blocked in the select is resumed by whichever event comes
\* first, so a context done during the wait is taken before the timer.
selectBackoff(ctxDone) == IF ctxDone THEN "done" ELSE "timer"

\* A caller invokes the operation.
retry_Start(op) ==
    /\ retry.pc = "idle"
    /\ retry' = [RetryIdle EXCEPT !.op = op, !.pc = "call"]

\* The body of the loop after the wait: one call, then return or go round.
retry_Call ==
    /\ retry.pc = "call"
    /\ retry.op \in RetryLoops
    /\ \E out \in callOutcomes(retry.op) :
        LET called == [retry EXCEPT !.calls = @ + 1, !.lastErr = out]
        IN  retry' =
              CASE out = "nil" -> [called EXCEPT !.pc = "returned", !.err = "nil"]
                [] out = "invalid" -> [called EXCEPT !.pc = "returned",
                                                     !.err = "invalid"]
                [] OTHER ->
                     IF retry.attempt + 1 <= loopMaxRetries(retry.op)
                     THEN [called EXCEPT
                             !.attempt = @ + 1, !.pc = "wait",
                             !.waits = Append(@, backoff(retry.op,
                                                         retry.attempt + 1))]
                     ELSE [called EXCEPT !.pc = "returned",
                                         !.err = "exhausted"]

\* The select at the top of the loop body when attempt > 0.
retry_Backoff ==
    /\ retry.pc = "wait"
    /\ retry' = IF selectBackoff(retry.ctxDone) = "done"
                THEN [retry EXCEPT !.pc = "returned", !.err = "ctx"]
                ELSE [retry EXCEPT !.pc = "call"]

\* GetDailyLimit: one Rpc call; an empty response (which is also what a
\* failed call gives) and an unparsable one are answered with zero counts
\* and a nil error.
GetDailyLimit_Rpc ==
    /\ retry.pc = "call"
    /\ retry.op = "GetDailyLimit"
    /\ \E out \in {"nil", "err"} :
        retry' = [retry EXCEPT !.calls = @ + 1, !.lastErr = out,
                               !.pc = "returned", !.err = "nil"]

\* The caller's context is cancelled or its deadline passes.
retry_Cancel ==
    /\ retry.pc \in {"call", "wait"}
    /\ ~retry.ctxDone
    /\ retry' = [retry EXCEPT !.ctxDone = TRUE, !.cancelledIn = retry.pc]

InitRetry ==
    /\ SvcIdle
    /\ OrchIdle
    /\ chk = NoCheck
    /\ CaptureIdle
    /\ DigestIdle
    /\ SchedIdle

NextRetry ==
    \/ \E op \in RetryOps :
            retry_Start(op)
                /\ UNCHANGED <<orchVars, chk, captureVars, digestVars, schedVars, idx, cmd, shut, send, lazy, moreVars>>
    \/ retry_Call /\ UNCHANGED <<orchVars, chk, captureVars, digestVars, schedVars, idx, cmd, shut, send, lazy, moreVars>>
    \/ retry_Backoff /\ UNCHANGED <<orchVars, chk, captureVars, digestVars, schedVars, idx, cmd, shut, send, lazy, moreVars>>
    \/ GetDailyLimit_Rpc
            /\ UNCHANGED <<orchVars, chk, captureVars, digestVars, schedVars, idx, cmd, shut, send, lazy, moreVars>>
    \/ retry_Cancel /\ UNCHANGED <<orchVars, chk, captureVars, digestVars, schedVars, idx, cmd, shut, send, lazy, moreVars>>

SpecRetry == InitRetry /\ [][NextRetry]_vars

\* C21: in each of the three retry loops, a context that is cancelled
\* before or during the wait between two attempts makes the loop return the
\* context's error from that wait, without another call to the service.
C21_CancelStopsRetry ==
    [][(retry.pc = "wait" /\ retry.ctxDone)
          => /\ retry'.pc = "returned"
             /\ retry'.err = "ctx"
             /\ retry'.calls = retry.calls]_vars

\* A loop that was cancelled while it waited has returned the context's error.
C21_Witness ==
    /\ retry.op \in RetryLoops
    /\ retry.pc = "returned"
    /\ retry.err = "ctx"
    /\ retry.cancelledIn = "wait"
    /\ retry.calls = 2

IsPrefix(s, t) == Len(s) <= Len(t) /\ s = SubSeq(t, 1, Len(s))

\* C22: for one batch the embeddings client calls the embedder at most three
\* times, waits between calls 1 s, 2 s, 4 s in that order, and returns the
\* "failed after attempts" error only when the attempts are used up.
C22_EmbedderThreeAttempts ==
    retry.op = "processBatch"
        => /\ retry.calls <= 3
           /\ IsPrefix(retry.waits, <<1000, 2000, 4000>>)
           /\ (retry.err = "exhausted" => retry.calls = 3)

\* C23: a store operation whose call fails is called again after 500 ms and
\* again after 1 s, and surfaces the error after the third failed call;
\* this holds of the quota read as of the operations behind withRetry.
C23_StoreOpsRetryTwice ==
    retry.op \in {"withRetry", "GetDailyLimit"}
        => /\ retry.calls <= 3
           /\ IsPrefix(retry.waits, <<500, 1000>>)
           /\ (retry.pc = "returned" /\ retry.lastErr = "err" /\ ~retry.ctxDone
                  => /\ retry.calls = 3
                     /\ retry.waits = <<500, 1000>>
                     /\ retry.err = "exhausted")

(***************************************************************************)
(* The indexing job on a seeded backlog                                    *)
(*                                                                         *)
(* The table starts with a backlog of captured, unindexed rows whose       *)
(* created_at order is any order; the nightly run and the run of the sync  *)
(* command work on it, one after the other or overlapping.                 *)
(***************************************************************************)

\* The largest seeded backlog.
MaxBacklog == 3

\* The tables capture can have left: rows 1..k of one chat with distinct
\* message ids, none indexed; created_at is the message's send time.
SeededTables ==
    {[i \in 1..Len(mids) |-> NewChatMessage(-1001, mids[i], i)] :
        mids \in {m \in UNION {[1..k -> 1..MaxBacklog] : k \in 0..MaxBacklog} :
                    \A a, b \in DOMAIN m : a # b => m[a] # m[b]}}

\* SyncJob.Run up to its batch loop.
Indexing_Run(j, readOk) ==
    /\ SyncJob_Run(j, readOk)
    /\ idx' = [idx EXCEPT ![j] =
          [IdxIdle EXCEPT
              !.ran = TRUE,
              !.backlog = {i \in 1..Len(chat_messages) : ~chat_messages[i].indexed},
              !.found = IF readOk
                        THEN Len(get_unindexed_messages(chat_messages, SyncMaxMessages))
                        ELSE 0,
              !.failed = ~readOk]]

\* SyncJob.Run: one pass of its batch loop.
Indexing_processBatch(j, embedOk) ==
    \E run \in RetryRuns :
        /\ SyncJob_processBatchWith(j, embedOk, run)
        /\ LET ids == sync[j].ids
               n == IF Len(ids) < SyncBatchSize THEN Len(ids) ELSE SyncBatchSize
           IN  idx' = [idx EXCEPT
                  ![j].batches = Append(@, SubSeq(ids, 1, n)),
                  ![j].failedAt = IF @ = 0 /\ ~embedOk
                                  THEN Len(idx[j].batches) + 1 ELSE @,
                  ![j].failed = @ \/ ~embedOk \/ run.err]

InitIndexing ==
    /\ chat_messages \in SeededTables
    /\ cap = [c \in Cap |-> CapIdle]
    /\ sync = [j \in SyncRuns |-> SyncIdle]
    /\ SvcIdle
    /\ OrchIdle
    /\ chk = NoCheck
    /\ DigestIdle
    /\ SchedIdle

NextIndexing ==
    \/ \E j \in SyncRuns, readOk \in BOOLEAN :
            Indexing_Run(j, readOk)
                /\ UNCHANGED <<orchVars, chk, digestVars, schedVars, retry, cmd, shut, send, lazy, moreVars>>
    \/ \E j \in SyncRuns, embedOk \in BOOLEAN :
            Indexing_processBatch(j, embedOk)
                /\ UNCHANGED <<orchVars, chk, digestVars, schedVars, retry, cmd, shut, send, lazy, moreVars>>

SpecIndexing == InitIndexing /\ [][NextIndexing]_vars

\* C24: the step of a run in which the embedding of a batch fails attaches
\* no vector and is the last step of that run: no batch is processed after
\* it.
C24_EmbedFailureEndsRun ==
    [][\A j \in SyncRuns :
          (idx[j].failedAt = 0 /\ idx'[j].failedAt # 0)
              => /\ chat_messages' = chat_messages
                 /\ sync'[j].pc = "idle"]_vars

RECURSIVE Flatten(_)
Flatten(ss) == IF ss = <<>> THEN <<>> ELSE Head(ss) \o Flatten(Tail(ss))

\* C25: a run hands at most SyncMaxMessages rows to the embedder, and a run
\* that found no unindexed row has ended without handing over a batch.
C25_RunIsBounded ==
    \A j \in SyncRuns :
        /\ Len(Flatten(idx[j].batches)) <= SyncMaxMessages
        /\ (idx[j].ran /\ idx[j].found = 0)
              => (sync[j].pc = "idle" /\ idx[j].batches = <<>>)

\* A run has ended after embedding SyncMaxMessages rows of a larger backlog,
\* and the other run has found nothing to do.
C25_Witness ==
    \E j, k \in SyncRuns :
        /\ sync[j].pc = "idle"
        /\ Cardinality(idx[j].backlog) > SyncMaxMessages
        /\ Len(Flatten(idx[j].batches)) = SyncMaxMessages
        /\ idx[k].ran /\ idx[k].found = 0 /\ ~idx[k].failed
        /\ sync[k].pc = "idle"

\* A run that has ended, none of whose calls failed, and that read a backlog
\* of at most SyncMaxMessages rows.
CleanRun(j) ==
    /\ idx[j].ran
    /\ sync[j].pc = "idle"
    /\ ~idx[j].failed
    /\ Cardinality(idx[j].backlog) <= SyncMaxMessages

\* C26: after such a run every row of the backlog it read is indexed with
\* indexed_at set; the run took exactly those rows, in batches of at most
\* SyncBatchSize, in created_at ascending order.
C26_CleanRunDrainsBacklog ==
    \A j \in SyncRuns :
        CleanRun(j) =>
            LET taken == Flatten(idx[j].batches)
            IN  /\ \A i \in idx[j].backlog :
                      /\ chat_messages[i].indexed
                      /\ chat_messages[i].indexed_at = "SET"
                /\ {taken[n] : n \in 1..Len(taken)} = idx[j].backlog
                /\ Len(taken) = Cardinality(idx[j].backlog)
                /\ \A n \in 1..Len(idx[j].batches) :
                      Len(idx[j].batches[n]) <= SyncBatchSize
                /\ \A n \in 1..(Len(taken) - 1) :
                      chat_messages[taken[n]].created_at
                          <= chat_messages[taken[n + 1]].created_at

\* Such a run has drained, in more than one batch, a backlog whose
\* created_at order is not the order of the row ids.
C26_Witness ==
    \E j \in SyncRuns :
        /\ CleanRun(j)
        /\ Len(idx[j].batches) > 1
        /\ \E a, b \in idx[j].backlog :
              a < b /\ chat_messages[a].created_at > chat_messages[b].created_at

(***************************************************************************)
(* The /sync command                                                       *)
(*                                                                         *)
(* Bot.Start gives every update its own goroutine, so the handler of the   *)
(* command runs beside the handlers that capture messages; the scheduler's *)
(* nightly run has its own goroutine too.                                  *)
(***************************************************************************)

\* The handler calls the callback itself and returns when it has returned.
afterCallbackStarted_Inline == "waiting"

\* go func() { b.syncCallback() ... }(): where the handler is once the
\* callback has been started.
afterCallbackStarted == "returned"

\* handleSyncCommand.
handleSyncCommand(allowed) ==
    /\ cmd.pc = "idle"
    /\ cmd' =
         IF ~allowed
         THEN [cmd EXCEPT !.pc = "returned", !.replies = Append(@, "not allowed")]
         ELSE IF ~cmd.configured
         THEN [cmd EXCEPT !.pc = "returned",
                          !.replies = @ \o <<"starting", "not configured">>]
         ELSE [cmd EXCEPT !.pc = afterCallbackStarted, !.task = "spawned",
                          !.replies = Append(@, "starting")]
    /\ UNCHANGED captureVars

\* The goroutine's reply and end once the callback has returned with err.
callbackReturned(c, failed) ==
    [c EXCEPT !.task = "done",
              !.pc = "returned",
              !.replies = Append(@, IF failed THEN "sync failed" ELSE "sync done")]

\* The goroutine started by the handler: the callback, SyncJob.Run, up to
\* its batch loop.
syncCallback_Run(readOk) ==
    /\ cmd.task = "spawned"
    /\ SyncJob_Run("manual", readOk)
    /\ cmd' = IF sync'["manual"].pc = "idle"
              THEN callbackReturned(cmd, ~readOk)
              ELSE [cmd EXCEPT !.task = "running"]

\* The goroutine started by the handler: one pass of the batch loop.
syncCallback_processBatch(embedOk) ==
    /\ cmd.task = "running"
    /\ SyncJob_processBatch("manual", embedOk)
    /\ cmd' = IF sync'["manual"].pc = "idle"
              THEN callbackReturned(cmd, FALSE)
              ELSE cmd

InitSyncCommand ==
    /\ cmd \in {[CmdIdle EXCEPT !.configured = b] : b \in BOOLEAN}
    /\ retry = RetryIdle
    /\ lazy = LazyIdle
    /\ MoreIdle
    /\ idx = [j \in SyncRuns |-> IdxIdle]
    /\ shut = ShutIdle
    /\ send = [m \in Sends |-> SendIdle]
    /\ chat_messages = <<>>
    /\ cap = [c \in Cap |-> CapIdle]
    /\ sync = [j \in SyncRuns |-> SyncIdle]
    /\ OrchIdle
    /\ chk = NoCheck
    /\ DigestIdle
    /\ SchedIdle

NextSyncCommand ==
    \/ \E allowed \in BOOLEAN :
            handleSyncCommand(allowed)
                /\ UNCHANGED <<orchVars, chk, digestVars, schedVars, retry, idx, shut, send, lazy, moreVars>>
    \/ \E readOk \in BOOLEAN :
            syncCallback_Run(readOk)
                /\ UNCHANGED <<orchVars, chk, digestVars, schedVars, retry, idx, shut, send, lazy, moreVars>>
    \/ \E embedOk \in BOOLEAN :
            syncCallback_processBatch(embedOk)
                /\ UNCHANGED <<orchVars, chk, digestVars, schedVars, retry, idx, shut, send, lazy, moreVars>>
    \/ \E c \in Cap :
            SaveChatMessage(c)
                /\ UNCHANGED <<orchVars, chk, digestVars, schedVars, svcVars>>
    \/ \E readOk \in BOOLEAN :
            SyncJob_Run("scheduled", readOk)
                /\ UNCHANGED <<orchVars, chk, digestVars, schedVars, svcVars>>
    \/ \E embedOk \in BOOLEAN :
            SyncJob_processBatch("scheduled", embedOk)
                /\ UNCHANGED <<orchVars, chk, digestVars, schedVars, svcVars>>

SpecSyncCommand == InitSyncCommand /\ [][NextSyncCommand]_vars

\* The run started by the command has not ended.
ManualRunInProgress == cmd.task \in {"spawned", "running"}

\* C27: while the run started by the /sync command is in progress its
\* handler has already returned, and a message waiting to be captured and
\* the nightly run can both take their next step.
C27_SyncCommandDoesNotBlock ==
    ManualRunInProgress
        => /\ cmd.pc = "returned"
           /\ \A c \in Cap :
                 (/\ cap[c].pc \in {"idle", "retry"}
                  /\ \A c0 \in Cap : c0 < c => cap[c0].pc # "idle")
                     => ENABLED SaveChatMessage(c)
           /\ sync["scheduled"].pc = "idle"
                 => ENABLED SyncJob_Run("scheduled", TRUE)
           /\ sync["scheduled"].pc = "batch"
                 => ENABLED SyncJob_processBatch("scheduled", TRUE)

\* The handler has returned and the manual run is between two batches while
\* a capture is being retried and the nightly run is in its batch loop.
C27_Witness ==
    /\ cmd.pc = "returned"
    /\ cmd.task = "running"
    /\ sync["manual"].pc = "batch"
    /\ sync["scheduled"].pc = "batch"
    /\ \E c \in Cap : cap[c].pc = "retry"

(***************************************************************************)
(* Shutdown                                                                *)
(*                                                                         *)
(* main cancels the context, starts a goroutine that calls Bot.Stop and    *)
(* closes done, and waits for done or for shutdownCtx; when main returns   *)
(* the process exits with whatever goroutines are still running.  Time is  *)
(* in seconds from the creation of shutdownCtx.                            *)
(***************************************************************************)

\* The handlers that can be in flight at once.
MaxInflight == 2

\* context.WithTimeout(context.Background(), 10*time.Second)
shutdownTimeout == 10

\* Bot.Start, case update := <-updates: the handler gets its goroutine.  A
\* select with the context done and an update ready takes either case.
Bot_Start_Update ==
    /\ shut.main # "exited"
    /\ shut.bot = "polling"
    /\ shut.inflight < MaxInflight
    /\ shut' = [shut EXCEPT !.inflight = @ + 1]

\* A handler returns: defer b.wg.Done().
handleUpdate_Return ==
    /\ shut.main # "exited"
    /\ shut.inflight > 0
    /\ shut' = [shut EXCEPT !.inflight = @ - 1]

\* main receives the signal: cancel(), sched.Stop(), shutdownCtx, the
\* goroutine that will call Bot.Stop; main is then in its last select.
main_Shutdown ==
    /\ shut.main = "running"
    /\ shut' = [shut EXCEPT !.main = "select", !.cancelled = TRUE, !.elapsed = 0]

\* Bot.Start, case <-ctx.Done(): StopReceivingUpdates, then wg.Wait().
Bot_Start_Done ==
    /\ shut.main # "exited"
    /\ shut.bot = "polling"
    /\ shut.cancelled
    /\ shut' = [shut EXCEPT !.bot = "waiting"]

\* Bot.Start: wg.Wait() returns once no handler is running.
Bot_Start_Return ==
    /\ shut.main # "exited"
    /\ shut.bot = "waiting"
    /\ shut.inflight = 0
    /\ shut' = [shut EXCEPT !.bot = "returned"]

\* The goroutine of main: telegramBot.Stop(), which is StopReceivingUpdates
\* and nothing else, then close(done).
main_StopGoroutine ==
    /\ shut.main = "select"
    /\ shut.done = "open"
    /\ shut' = [shut EXCEPT !.done = "closed"]

\* A second passes while main is in its select; shutdownCtx is done at
\* shutdownTimeout, and main does not sleep past a ready case.
main_Second ==
    /\ shut.main = "select"
    /\ shut.done = "open"
    /\ shut.elapsed < shutdownTimeout
    /\ shut' = [shut EXCEPT !.elapsed = @ + 1]

\* main's select on shutdownCtx.Done() and done, then return from main.
main_Select ==
    /\ shut.main = "select"
    /\ shut.done = "closed" \/ shut.elapsed = shutdownTimeout
    /\ shut' = [shut EXCEPT !.main = "exited", !.cutOff = shut.inflight]

InitShutdown ==
    /\ shut = ShutIdle
    /\ retry = RetryIdle
    /\ lazy = LazyIdle
    /\ MoreIdle
    /\ idx = [j \in SyncRuns |-> IdxIdle]
    /\ cmd = CmdIdle
    /\ send = [m \in Sends |-> SendIdle]
    /\ OrchIdle
    /\ chk = NoCheck
    /\ CaptureIdle
    /\ DigestIdle
    /\ SchedIdle

othersOfShutdown ==
    <<orchVars, chk, captureVars, digestVars, schedVars, retry, idx, cmd, send,
      lazy, moreVars>>

NextShutdown ==
    \/ Bot_Start_Update /\ UNCHANGED othersOfShutdown
    \/ handleUpdate_Return /\ UNCHANGED othersOfShutdown
    \/ main_Shutdown /\ UNCHANGED othersOfShutdown
    \/ Bot_Start_Done /\ UNCHANGED othersOfShutdown
    \/ Bot_Start_Return /\ UNCHANGED othersOfShutdown
    \/ main_StopGoroutine /\ UNCHANGED othersOfShutdown
    \/ main_Second /\ UNCHANGED othersOfShutdown
    \/ main_Select /\ UNCHANGED othersOfShutdown

SpecShutdown == InitShutdown /\ [][NextShutdown]_vars

\* C28: the process exits no later than shutdownTimeout after the
\* cancellation, and when it exits earlier no handler is still running: a
\* handler is cut off only by the end of the grace period.
C28_GracefulShutdown ==
    shut.main = "exited"
        => /\ shut.elapsed <= shutdownTimeout
           /\ shut.elapsed < shutdownTimeout => shut.cutOff = 0

(***************************************************************************)
(* Posting a reply                                                         *)
(*                                                                         *)
(* sendMessageWithContext starts a goroutine that makes the Sends and      *)
(* puts the outcome in resultChan (buffered, one place), and waits for     *)
(* resultChan or for its context, which sendMessage gives a timeout.  The  *)
(* goroutine goes on after the caller has returned.                        *)
(***************************************************************************)

\* The ParseMode of the sends, in the order of the code; "" is plain text.
ParseModes == <<"Markdown", "MarkdownV2", "">>

\* The fallback chain without its plain-text send.
nextParseMode_NoPlain(mode) ==
    IF mode = "Markdown" THEN "MarkdownV2" ELSE "none"

\* The send that follows a failed send with this ParseMode; "none" after the
\* plain-text one.
nextParseMode(mode) ==
    CASE mode = "Markdown" -> "MarkdownV2"
      [] mode = "MarkdownV2" -> ""
      [] OTHER -> "none"

\* sendMessageWithContext up to its select: the text is cut to 4093 bytes
\* when longer than 4096, the goroutine is started.
sendMessageWithContext(m, long) ==
    /\ send[m].caller = "idle"
    /\ send' = [send EXCEPT ![m].caller = "select", ![m].mode = "Markdown",
                            ![m].truncated = long]

\* The goroutine: one b.api.Send and what follows it.
sendMessage_Send(m, ok) ==
    /\ send[m].mode \in {"Markdown", "MarkdownV2", ""}
    /\ LET made == Append(send[m].attempts, [mode |-> send[m].mode, ok |-> ok])
           next == nextParseMode(send[m].mode)
       IN  send' =
             IF ok
             THEN [send EXCEPT ![m].attempts = made, ![m].mode = "none",
                               ![m].resultChan = "nil"]
             ELSE IF next = "none"
             THEN [send EXCEPT ![m].attempts = made, ![m].mode = "none",
                               ![m].resultChan = "failed after 3 attempts"]
             ELSE [send EXCEPT ![m].attempts = made, ![m].mode = next]

\* The deadline of the caller's context passes (or it is cancelled).
sendMessage_CtxDone(m) ==
    /\ send[m].caller = "select"
    /\ ~send[m].ctxDone
    /\ send' = [send EXCEPT ![m].ctxDone = TRUE]

\* The caller's select { case <-ctx.Done(); case res := <-resultChan }:
\* either of the ready cases.
sendMessageWithContext_Select(m) ==
    /\ send[m].caller = "select"
    /\ \/ /\ send[m].ctxDone
          /\ send' = [send EXCEPT ![m].caller = "returned",
                                  ![m].ret = "send message timeout"]
       \/ /\ send[m].resultChan # "empty"
          /\ send' = [send EXCEPT ![m].caller = "returned",
                                  ![m].ret = send[m].resultChan,
                                  ![m].resultChan = "empty"]

InitSend ==
    /\ send = [m \in Sends |-> SendIdle]
    /\ retry = RetryIdle
    /\ lazy = LazyIdle
    /\ MoreIdle
    /\ idx = [j \in SyncRuns |-> IdxIdle]
    /\ cmd = CmdIdle
    /\ shut = ShutIdle
    /\ OrchIdle
    /\ chk = NoCheck
    /\ CaptureIdle
    /\ DigestIdle
    /\ SchedIdle

othersOfSend ==
    <<orchVars, chk, captureVars, digestVars, schedVars, retry, idx, cmd, shut,
      lazy, moreVars>>

NextSend ==
    \/ \E m \in Sends, long \in BOOLEAN :
            sendMessageWithContext(m, long) /\ UNCHANGED othersOfSend
    \/ \E m \in Sends, ok \in BOOLEAN :
            sendMessage_Send(m, ok) /\ UNCHANGED othersOfSend
    \/ \E m \in Sends : sendMessage_CtxDone(m) /\ UNCHANGED othersOfSend
    \/ \E m \in Sends : sendMessageWithContext_Select(m) /\ UNCHANGED othersOfSend

SpecSend == InitSend /\ [][NextSend]_vars

\* The sends made are the first ones of the chain, in its order, and none
\* follows a send that succeeded.
SendsInOrder(m) ==
    /\ Len(send[m].attempts) <= Len(ParseModes)
    /\ \A i \in 1..Len(send[m].attempts) :
          /\ send[m].attempts[i].mode = ParseModes[i]
          /\ i < Len(send[m].attempts) => ~send[m].attempts[i].ok

\* All three sends have been made and have failed.
AllSendsFailed(m) ==
    /\ Len(send[m].attempts) = 3
    /\ \A i \in 1..3 : ~send[m].attempts[i].ok

\* C29, as claimed: the sends are made in the order Markdown, escaped
\* MarkdownV2, plain text up to the first success, and the caller gets an
\* error only when all three sends have failed.
C29_ErrorOnlyAfterThreeSends ==
    \A m \in Sends :
        /\ SendsInOrder(m)
        /\ (send[m].caller = "returned" /\ send[m].ret # "nil")
              => AllSendsFailed(m)

\* C29, amended: the sends are made in that order up to the first success;
\* the caller gets the error of the sends only when all three have failed
\* and nil only when one has succeeded; any other error it gets is the
\* timeout of its context, which can come before the sends have finished.
C29_SendErrorOnlyAfterThreeSends ==
    \A m \in Sends :
        /\ SendsInOrder(m)
        /\ send[m].caller = "returned"
              => /\ send[m].ret = "failed after 3 attempts" => AllSendsFailed(m)
                 /\ send[m].ret = "nil"
                       => (send[m].attempts # <<>>
                             /\ send[m].attempts[Len(send[m].attempts)].ok)
                 /\ send[m].ret \notin {"nil", "failed after 3 attempts"}
                       => (send[m].ret = "send message timeout" /\ send[m].ctxDone)

\* One caller has got the error of the sends after three failed sends,
\* another has got nil after the plain-text send succeeded.
C29_Witness ==
    \E m, n \in Sends :
        /\ send[m].caller = "returned"
        /\ send[m].ret = "failed after 3 attempts"
        /\ AllSendsFailed(m)
        /\ send[n].caller = "returned"
        /\ send[n].ret = "nil"
        /\ Len(send[n].attempts) = 3

(***************************************************************************)
(* Clients created on first use                                            *)
(*                                                                         *)
(* getClient of llm.Client and of embeddings.Client holds the client's     *)
(* mutex from its first statement to its return; getClient of              *)
(* summary.Generator takes no lock, so its steps interleave with those of  *)
(* another goroutine in the same function.                                 *)
(***************************************************************************)

\* c.mu.Lock(); defer c.mu.Unlock() is in getClient of this service.
locksMutex(svc) == svc \in {"llm", "embeddings"}

\* A goroutine calls getClient of a service.
getClient_Call(t, svc) ==
    /\ lazy.call[t].pc = "idle"
    /\ lazy' = [lazy EXCEPT !.call[t].pc = IF locksMutex(svc) THEN "lock" ELSE "check",
                            !.call[t].svc = svc]

\* c.mu.Lock()
getClient_Lock(t) ==
    /\ lazy.call[t].pc = "lock"
    /\ lazy.mu[lazy.call[t].svc] = 0
    /\ lazy' = [lazy EXCEPT !.mu[lazy.call[t].svc] = t, !.call[t].pc = "check"]

\* The mutex of the service after the call of t has returned.
unlocked(t, svc) == IF lazy.mu[svc] = t THEN 0 ELSE lazy.mu[svc]

\* if c.genaiClient != nil { return c.genaiClient, nil }
getClient_Check(t) ==
    /\ lazy.call[t].pc = "check"
    /\ LET svc == lazy.call[t].svc
       IN  lazy' = IF lazy.genaiClient[svc] # 0
                   THEN [lazy EXCEPT !.call[t].pc = "returned",
                                     !.call[t].ret = lazy.genaiClient[svc],
                                     !.mu[svc] = unlocked(t, svc)]
                   ELSE [lazy EXCEPT !.call[t].pc = "create"]

\* client, err := genai.NewClient(...); on an error getClient returns it.
getClient_NewClient(t, ok) ==
    /\ lazy.call[t].pc = "create"
    /\ LET svc == lazy.call[t].svc
       IN  lazy' = IF ok
                   THEN [lazy EXCEPT !.created[svc] = @ + 1,
                                     !.call[t].client = lazy.created[svc] + 1,
                                     !.call[t].pc = "store"]
                   ELSE [lazy EXCEPT !.call[t].pc = "returned",
                                     !.mu[svc] = unlocked(t, svc)]

\* c.genaiClient = client; return c.genaiClient, nil
getClient_Store(t) ==
    /\ lazy.call[t].pc = "store"
    /\ LET svc == lazy.call[t].svc
       IN  lazy' = [lazy EXCEPT !.genaiClient[svc] = lazy.call[t].client,
                                !.call[t].pc = "returned",
                                !.call[t].ret = lazy.call[t].client,
                                !.mu[svc] = unlocked(t, svc)]

InitClients ==
    /\ SvcIdle
    /\ OrchIdle
    /\ chk = NoCheck
    /\ CaptureIdle
    /\ DigestIdle
    /\ SchedIdle

othersOfClients ==
    <<orchVars, chk, captureVars, digestVars, schedVars, retry, idx, cmd, shut,
      send, moreVars>>

NextClients ==
    \/ \E t \in Tasks, svc \in Services :
            getClient_Call(t, svc) /\ UNCHANGED othersOfClients
    \/ \E t \in Tasks : getClient_Lock(t) /\ UNCHANGED othersOfClients
    \/ \E t \in Tasks : getClient_Check(t) /\ UNCHANGED othersOfClients
    \/ \E t \in Tasks, ok \in BOOLEAN :
            getClient_NewClient(t, ok) /\ UNCHANGED othersOfClients
    \/ \E t \in Tasks : getClient_Store(t) /\ UNCHANGED othersOfClients

SpecClients == InitClients /\ [][NextClients]_vars

\* C30: whatever the interleaving of the first calls, genai.NewClient
\* succeeds at most once for each of the three services.
C30_ClientCreatedOnce ==
    \A svc \in Services : lazy.created[svc] <= 1

(***************************************************************************)
(* handleMessage                                                           *)
(*                                                                         *)
(* Every update has its goroutine; handleMessage filters the message and   *)
(* calls saveChatMessage and handleMention, one after the other, on that   *)
(* goroutine.  -1001 is the allowed chat, -1002 a chat that is not.        *)
(***************************************************************************)

MessageChats == {-1001, -1002}

\* The first call slot that has not been used.
FirstIdle(slots) ==
    CHOOSE n \in DOMAIN slots :
        slots[n].pc = "idle" /\ \A n0 \in DOMAIN slots : n0 < n => slots[n0].pc # "idle"

\* handleMessage up to its first call: commands go to handleCommand, a
\* message of a chat that is not allowed is dropped, a message without text
\* is not saved.
handleMessage(h) ==
    /\ msg[h].pc = "idle"
    /\ \A h0 \in Handlers : h0 < h => msg[h0].pc # "idle"
    /\ \E chat \in MessageChats, command \in BOOLEAN, text \in BOOLEAN,
          mention \in BOOLEAN :
        /\ mention => text
        /\ msg' = [msg EXCEPT ![h] =
              [MsgIdle EXCEPT
                  !.chat = chat, !.command = command, !.text = text,
                  !.mention = mention,
                  !.pc = IF command THEN "command"
                         ELSE IF ~IsAllowedChat(chat) THEN "ignored"
                         ELSE IF text THEN "save"
                         ELSE IF mention THEN "mention" ELSE "done"]]

\* b.saveChatMessage(ctx, message): storage.SaveChatMessage, one pass of its
\* retry loop; handleMessage goes on when the call has returned.
handleMessage_saveChatMessage(h) ==
    /\ msg[h].pc = "save"
    /\ LET c == IF msg[h].cap = 0 THEN FirstIdle(cap) ELSE msg[h].cap
       IN  /\ SaveChatMessage(c)
           /\ msg' = [msg EXCEPT
                 ![h].cap = c,
                 ![h].pc = IF cap'[c].pc = "retry" THEN "save"
                           ELSE IF msg[h].mention THEN "mention" ELSE "done"]

\* if b.isMentioned(message) { b.handleMention(ctx, message) }: one step of
\* handleMention.
handleMessage_handleMention(h) ==
    /\ msg[h].pc = "mention"
    /\ LET r == IF msg[h].req = 0 THEN FirstIdle(req) ELSE msg[h].req
       IN  /\ \/ handleMention_CheckLimit(r)
              \/ handleMention_Search(r)
              \/ handleMention_GenerateResponse(r)
              \/ handleMention_IncrementUsage(r)
              \/ handleMention_LogRequest(r)
           /\ msg' = [msg EXCEPT
                 ![h].req = r,
                 ![h].pc = IF req'[r].pc \in {"noquestion", "denied", "done", "failed"}
                           THEN "done" ELSE "mention"]

InitMessage ==
    /\ msg = [h \in Handlers |-> MsgIdle]
    /\ fn = NoFn
    /\ AllowedChatIDs = <<-1001>>
    /\ daily_summaries = <<>>
    /\ dig = [t \in Dig |-> DigIdle]
    /\ OrchInit
    /\ chk = NoCheck
    /\ CaptureIdle
    /\ SchedIdle
    /\ lazy = LazyIdle
    /\ retry = RetryIdle
    /\ idx = [j \in SyncRuns |-> IdxIdle]
    /\ cmd = CmdIdle
    /\ shut = ShutIdle
    /\ send = [m \in Sends |-> SendIdle]

callVars == <<retry, idx, cmd, shut, send, lazy>>

NextMessage ==
    \/ \E h \in Handlers :
            handleMessage(h)
                /\ UNCHANGED <<orchVars, chk, captureVars, digestVars, schedVars,
                               callVars, fn>>
    \/ \E h \in Handlers :
            handleMessage_saveChatMessage(h)
                /\ UNCHANGED <<orchVars, chk, digestVars, schedVars, callVars, fn>>
    \/ \E h \in Handlers :
            handleMessage_handleMention(h)
                /\ UNCHANGED <<chk, captureVars, digestVars, schedVars, callVars, fn>>

SpecMessage == InitMessage /\ [][NextMessage]_vars

\* C31: while the store write of a message that mentions the bot is under
\* way (its first attempt or a retry is still to come), the answer path of
\* that message can start.
C31_SaveDoesNotBlockAnswer ==
    \A h \in Handlers :
        (msg[h].pc = "save" /\ msg[h].mention)
            => ENABLED handleMessage_handleMention(h)

\* The messages handled so far that are no commands and come from chats
\* that are not allowed.
Foreign(h) ==
    /\ msg[h].pc # "idle"
    /\ ~msg[h].command
    /\ msg[h].chat \notin {AllowedChatIDs[i] : i \in DOMAIN AllowedChatIDs}

\* Only messages that are no commands and come from chats that are not
\* allowed have arrived.
OnlyForeign == \A h \in Handlers : msg[h].pc # "idle" => Foreign(h)

\* C39: a non-command message of a chat that is not in the allowed list is
\* dropped: no SaveChatMessage call and no handleMention run is made for
\* it, and while only such messages have arrived chat_messages has no row,
\* no retrieval or generation has run and no step changes a counter.
C39_ForeignChatIsIgnored ==
    /\ [](\A h \in Handlers :
            Foreign(h) => msg[h].pc = "ignored" /\ msg[h].cap = 0 /\ msg[h].req = 0)
    /\ [](OnlyForeign
            => /\ chat_messages = <<>>
               /\ \A c \in Cap : cap[c].pc = "idle"
               /\ \A r \in Req : req[r].pc = "idle"
               /\ request_logs = EmptyBag)
    /\ [][OnlyForeign' => daily_limits' = daily_limits]_vars

\* A message with text that mentions the bot has arrived from the chat that
\* is not allowed.
C39_Witness ==
    \E h \in Handlers :
        /\ Foreign(h)
        /\ msg[h].text
        /\ msg[h].mention
        /\ msg[h].chat = -1002

(***************************************************************************)
(* Functions applied on their own                                          *)
(*                                                                         *)
(* fn holds one call: the function's name, its arguments, and once it has  *)
(* returned, its result.  Everything that the call does not touch is idle. *)
(***************************************************************************)

\* All of the program but the quota tables and fn is idle.
AllButFnIdle ==
    /\ msg = [h \in Handlers |-> MsgIdle]
    /\ lazy = LazyIdle
    /\ retry = RetryIdle
    /\ idx = [j \in SyncRuns |-> IdxIdle]
    /\ cmd = CmdIdle
    /\ shut = ShutIdle
    /\ send = [m \in Sends |-> SendIdle]
    /\ chk = NoCheck
    /\ CaptureIdle
    /\ DigestIdle
    /\ SchedIdle

Call(name, in) == [name |-> name, in |-> in, done |-> FALSE, out |-> <<>>]

----------------------------------------------------------------------------
(* storage.IncrementLimit *)

\* The model types a caller can pass: ModelType is a string type, so a value
\* that is neither constant can be passed.
ModelTypes == {ModelPro, ModelFlash, "gemini-other"}

\* The RPC increment_daily_limit performed n times.
RECURSIVE increment_daily_limit_Times(_, _, _, _, _)
increment_daily_limit_Times(table, user, date, modelTypeStr, n) ==
    IF n = 0 THEN table
    ELSE increment_daily_limit_Times(
             increment_daily_limit(table, user, date, modelTypeStr),
             user, date, modelTypeStr, n - 1)

\* storage.IncrementLimit: the tier name is derived from the model type and
\* the RPC is called under withRetry.
IncrementLimit ==
    /\ fn.name = "IncrementLimit"
    /\ ~fn.done
    /\ \E run \in RetryRuns :
        /\ daily_limits' = increment_daily_limit_Times(
                               daily_limits, fn.in.userID, fn.in.date,
                               modelTypeStrOf(fn.in.modelType), run.hits)
        /\ fn' = [fn EXCEPT !.done = TRUE,
                            !.out = [err |-> IF run.err THEN "Unavailable" ELSE "nil",
                                     calls |-> run.hits]]
    /\ UNCHANGED <<today, request_logs, req, peak>>

InitIncrementLimit ==
    /\ AllButFnIdle
    /\ today = 0
    /\ request_logs = EmptyBag
    /\ req = [r \in Req |-> ReqIdle]
    /\ peak = [u \in Users |-> 0]
    /\ daily_limits \in [Users -> [Dates -> [pro : 0..ProDailyLimit,
                                             flash : 0..FlashDailyLimit]]]
    /\ \E u \in Users, d \in Dates, m \in ModelTypes :
          fn = Call("IncrementLimit",
                    [userID |-> u, date |-> d, modelType |-> m, table |-> daily_limits])

NextIncrementLimit ==
    IncrementLimit
        /\ UNCHANGED <<chk, captureVars, digestVars, schedVars, callVars, msg>>

SpecIncrementLimit == InitIncrementLimit /\ [][NextIncrementLimit]_vars

\* C32: IncrementLimit called with a model type that is neither the Pro nor
\* the Flash model returns an invalid-argument error, having made no call
\* that the store performed, and leaves every counter as it was.
C32_UnknownTierIsRejected ==
    (fn.name = "IncrementLimit" /\ fn.done /\ fn.in.modelType \notin {ModelPro, ModelFlash})
        => /\ fn.out.err = "InvalidArgument"
           /\ fn.out.calls = 0
           /\ daily_limits = fn.in.table

----------------------------------------------------------------------------
(* storage.SearchSimilarMessages and SQL search_similar_messages *)

\* Embeddings: unit vectors in the plane at 0, 45 and 90 degrees.
Vectors == {"E", "NE", "N"}

Angle(v) == IF v = "E" THEN 0 ELSE IF v = "NE" THEN 1 ELSE 2

\* pgvector's <=>, cosine distance, in tenths: 1 - cos of the angle between
\* the vectors.
cosine_distance(a, b) ==
    LET d == IF Angle(a) >= Angle(b) THEN Angle(a) - Angle(b) ELSE Angle(b) - Angle(a)
    IN  IF d = 0 THEN 0 ELSE IF d = 1 THEN 3 ELSE 10

\* The tables a search can meet: up to NMsg rows of either chat, indexed or
\* not, with or without an embedding.
SearchTables ==
    UNION {[1..n -> [chat_id : MessageChats, indexed : BOOLEAN,
                     embedding : Vectors \cup {"NULL"}]] : n \in 0..NMsg}

\* The rows of the WHERE clause; target_chat_id is <<>> for NULL.
search_similar_messages_Where(table, query_embedding, similarity_threshold, target_chat_id) ==
    {i \in 1..Len(table) :
        /\ table[i].indexed
        /\ table[i].embedding # "NULL"
        /\ (target_chat_id = <<>> \/ table[i].chat_id = target_chat_id[1])
        /\ 10 - cosine_distance(table[i].embedding, query_embedding)
              >= similarity_threshold}

\* The orders ORDER BY can give the rows: dist ascending when asc, else
\* descending; rows at equal distance come in any order.
OrderBy(ids, dist, asc) ==
    {s \in [1..Cardinality(ids) -> ids] :
        /\ \A a, b \in DOMAIN s : a # b => s[a] # s[b]
        /\ \A a, b \in DOMAIN s :
              a < b => IF asc THEN dist[s[a]] <= dist[s[b]]
                              ELSE dist[s[a]] >= dist[s[b]]}

\* LIMIT n.
Limit(s, n) == SubSeq(s, 1, IF Len(s) < n THEN Len(s) ELSE n)

\* The function with ORDER BY ... DESC.
search_similar_messages_Farthest(table, query_embedding, similarity_threshold, match_count, target_chat_id) ==
    LET dist == [i \in 1..Len(table) |->
                    cosine_distance(table[i].embedding, query_embedding)]
        match == search_similar_messages_Where(table, query_embedding,
                                               similarity_threshold, target_chat_id)
    IN  {[n \in DOMAIN Limit(s, match_count) |->
            [id |-> s[n], chat_id |-> table[s[n]].chat_id,
             similarity |-> 10 - dist[s[n]]]] :
         s \in UNION {OrderBy(probed, dist, FALSE) : probed \in SUBSET match}}

\* SQL search_similar_messages: the possible results.  The scan goes through
\* the ivfflat index, which can miss rows: the rows probed are any subset of
\* those the WHERE clause keeps.
search_similar_messages(table, query_embedding, similarity_threshold, match_count, target_chat_id) ==
    LET dist == [i \in 1..Len(table) |->
                    cosine_distance(table[i].embedding, query_embedding)]
        match == search_similar_messages_Where(table, query_embedding,
                                               similarity_threshold, target_chat_id)
    IN  {[n \in DOMAIN Limit(s, match_count) |->
            [id |-> s[n], chat_id |-> table[s[n]].chat_id,
             similarity |-> 10 - dist[s[n]]]] :
         s \in UNION {OrderBy(probed, dist, TRUE) : probed \in SUBSET match}}

\* What one attempt's Rpc call gives: the rows as JSON, "" (the client's
\* answer when the call failed), or text that does not parse.
SearchRpc == {"rows", "empty", "garbled"}

\* The closure passed to withRetry, run from the given attempt to the
\* return of SearchSimilarMessages: data == "" returns nil and leaves results
\* nil, a parse error is retried.
RECURSIVE SearchSimilarMessages_Retry(_, _, _, _)
SearchSimilarMessages_Retry(attempt, outs, firstDone, rows) ==
    LET step == withRetry(attempt, firstDone = attempt /\ attempt > 0,
                          outs[attempt + 1] = "garbled")
    IN  IF step = "retry"
        THEN SearchSimilarMessages_Retry(attempt + 1, outs, firstDone, rows)
        ELSE IF step = "ok"
        THEN [err |-> FALSE,
              results |-> IF outs[attempt + 1] = "rows" THEN rows ELSE <<>>]
        ELSE [err |-> TRUE, results |-> <<>>]

\* storage.SearchSimilarMessages: target_chat_id is passed when chatID is
\* not 0.
SearchSimilarMessages ==
    /\ fn.name = "SearchSimilarMessages"
    /\ ~fn.done
    /\ \E outs \in [1..(maxRetries + 1) -> SearchRpc], firstDone \in 0..maxRetries :
       \E rows \in search_similar_messages(
                       chat_messages, fn.in.queryEmbedding, fn.in.threshold,
                       fn.in.limit,
                       IF fn.in.chatID # 0 THEN <<fn.in.chatID>> ELSE <<>>) :
          fn' = [fn EXCEPT
                    !.done = TRUE,
                    !.out = SearchSimilarMessages_Retry(0, outs, firstDone, rows)]
    /\ UNCHANGED <<chat_messages, cap, sync>>

\* The similarity floors and the result counts asked for.
Thresholds == {5, 8}
MaxTopK == 2

InitSearch ==
    /\ msg = [h \in Handlers |-> MsgIdle]
    /\ lazy = LazyIdle
    /\ retry = RetryIdle
    /\ idx = [j \in SyncRuns |-> IdxIdle]
    /\ cmd = CmdIdle
    /\ shut = ShutIdle
    /\ send = [m \in Sends |-> SendIdle]
    /\ chk = NoCheck
    /\ OrchIdle
    /\ DigestIdle
    /\ SchedIdle
    /\ cap = [c \in Cap |-> CapIdle]
    /\ sync = [j \in SyncRuns |-> SyncIdle]
    /\ chat_messages \in SearchTables
    /\ \E q \in Vectors, t \in Thresholds, k \in 0..MaxTopK,
          c \in MessageChats \cup {0} :
          fn = Call("SearchSimilarMessages",
                    [queryEmbedding |-> q, threshold |-> t, limit |-> k, chatID |-> c])

NextSearch ==
    SearchSimilarMessages
        /\ UNCHANGED <<orchVars, chk, digestVars, schedVars, callVars, msg>>

SpecSearch == InitSearch /\ [][NextSearch]_vars

\* C33: SearchSimilarMessages returns at most limit rows; each is a row of
\* chat_messages with indexed = TRUE, of the chat asked for when one is
\* given (chatID is not 0), and its similarity, 1 minus the cosine distance
\* of its embedding to the query, is at least the threshold; the rows come
\* by non-increasing similarity.
C33_SearchResult ==
    (fn.name = "SearchSimilarMessages" /\ fn.done)
        => LET rows == fn.out.results
           IN  /\ Len(rows) <= fn.in.limit
               /\ \A n \in DOMAIN rows :
                    LET cm == chat_messages[rows[n].id]
                    IN  /\ rows[n].id \in DOMAIN chat_messages
                        /\ cm.indexed
                        /\ cm.embedding # "NULL"
                        /\ fn.in.chatID # 0 => cm.chat_id = fn.in.chatID
                        /\ rows[n].similarity =
                              10 - cosine_distance(cm.embedding, fn.in.queryEmbedding)
                        /\ rows[n].similarity >= fn.in.threshold
               /\ \A a, b \in DOMAIN rows :
                    a < b => rows[a].similarity >= rows[b].similarity

\* A search in one chat has returned two rows of different similarity while
\* the table holds a row of the other chat too.
C33_Witness ==
    /\ fn.name = "SearchSimilarMessages"
    /\ fn.done
    /\ fn.in.chatID # 0
    /\ Len(fn.out.results) = 2
    /\ fn.out.results[1].similarity > fn.out.results[2].similarity

----------------------------------------------------------------------------
(* rag.Searcher.FormatContext *)

\* Strings are kept by their length in code points, which is what
\* utf8.RuneCountInString gives and what the length of the result is measured
\* in.  The constants are the code points of the format strings without their
\* verbs.
headerRunes == 41
entryFormatRunes == 27
markerFormatRunes == 70
similarityRunes == 4

\* Length of %d for a number that is not negative.
RECURSIVE Digits(_)
Digits(n) == IF n < 10 THEN 1 ELSE 1 + Digits(n \div 10)

\* fmt.Sprintf("%d. %s (%s, relevance: %s): \"%s\"\n", i+1, author, timeAgo,
\* similarity, msg.MessageText), for the i-th message counted from 1.
entryRunes(i, m) ==
    Digits(i) + entryFormatRunes + m.author + m.timeAgo + similarityRunes + m.text

\* The loop of FormatContext from the i-th message on (counted from 1), with
\* totalLength runes of entries written: the runes it adds to the builder.
RECURSIVE FormatContext_Loop(_, _, _, _)
FormatContext_Loop(messages, maxLength, i, totalLength) ==
    IF i > Len(messages) THEN [runes |-> 0, marker |-> 0, shown |-> i - 1]
    ELSE IF totalLength + entryRunes(i, messages[i]) > maxLength
    THEN LET marker == markerFormatRunes + Digits(Len(messages) - (i - 1))
         IN  [runes |-> marker, marker |-> marker, shown |-> i - 1]
    ELSE LET rest == FormatContext_Loop(messages, maxLength, i + 1,
                                        totalLength + entryRunes(i, messages[i]))
         IN  [rest EXCEPT !.runes = @ + entryRunes(i, messages[i])]

\* FormatContext: the length of the string it returns, the length of the
\* marker in it (0 when there is none) and the number of entries in it.
FormatContext(messages, maxLength) ==
    IF Len(messages) = 0 THEN [runes |-> 0, marker |-> 0, shown |-> 0]
    ELSE LET loop == FormatContext_Loop(messages, maxLength, 1, 0)
         IN  [loop EXCEPT !.runes = headerRunes + @ + 1]

\* Bodies of 1, 20 and 60 code points; the author is a first name of four
\* letters and the time the ten code points of "just now" in Russian.
TextRunes == {1, 20, 60}
MaxRows == 3
ContextBudgets == {0, 50, 100, 150, 2000}
ResultRows ==
    UNION {[1..n -> [author : {4}, timeAgo : {10}, text : TextRunes]] : n \in 0..MaxRows}

Searcher_FormatContext ==
    /\ fn.name = "FormatContext"
    /\ ~fn.done
    /\ fn' = [fn EXCEPT !.done = TRUE,
                        !.out = FormatContext(fn.in.messages, fn.in.MaxContextLength)]

InitFormatContext ==
    /\ AllButFnIdle
    /\ OrchIdle
    /\ \E messages \in ResultRows, maxLength \in ContextBudgets :
          fn = Call("FormatContext",
                    [messages |-> messages, MaxContextLength |-> maxLength])

NextFormatContext ==
    Searcher_FormatContext
        /\ UNCHANGED <<orchVars, chk, captureVars, digestVars, schedVars, callVars, msg>>

SpecFormatContext == InitFormatContext /\ [][NextFormatContext]_vars

\* C34: the string FormatContext returns has at most MaxContextLength code
\* points plus those of the marker of the rows left out, whatever the rows.
C34_ContextWithinBudget ==
    (fn.name = "FormatContext" /\ fn.done)
        => fn.out.runes <= fn.in.MaxContextLength + fn.out.marker

----------------------------------------------------------------------------
(* storage.GetUserMessageCounts and storage.GetMostActiveUser *)

Authors == 1..3
MaxDayRows == 4

\* The day's tables: up to MaxDayRows rows of either chat, each by one of
\* the authors.
DayTables ==
    UNION {[1..n -> [chat_id : MessageChats, user_id : Authors]] : n \in 0..MaxDayRows}

\* GetUserMessageCounts, the map: MessageCount per UserID of the messages.
userCounts(messages) ==
    [u \in {messages[i].user_id : i \in DOMAIN messages} |->
        Cardinality({i \in DOMAIN messages : messages[i].user_id = u})]

\* GetUserMessageCounts: "for _, count := range userCounts" appends the
\* entries in the map's iteration order, which Go leaves unspecified: the
\* slices it can return.
GetUserMessageCounts(table, chatID, date) ==
    LET counts == userCounts(GetMessagesForDate(table, chatID, date))
        users == DOMAIN counts
    IN  {[n \in 1..Cardinality(users) |->
            [UserID |-> order[n], MessageCount |-> counts[order[n]]]] :
         order \in {o \in [1..Cardinality(users) -> users] :
                      \A a, b \in DOMAIN o : a # b => o[a] # o[b]}}

\* The loop of GetMostActiveUser from counts[i] on.
RECURSIVE mostActiveFrom(_, _, _)
mostActiveFrom(counts, i, mostActive) ==
    IF i > Len(counts) THEN mostActive
    ELSE mostActiveFrom(counts, i + 1,
             IF counts[i].MessageCount > mostActive.MessageCount
             THEN counts[i] ELSE mostActive)

\* GetMostActiveUser on the slice GetUserMessageCounts returned; <<>> is nil.
mostActiveOf(counts) ==
    IF Len(counts) = 0 THEN <<>>
    ELSE <<mostActiveFrom(counts, 2, counts[1])>>

GetMostActiveUser ==
    /\ fn.name = "GetMostActiveUser"
    /\ ~fn.done
    /\ \E counts \in GetUserMessageCounts(chat_messages, fn.in.chatID, fn.in.date) :
          fn' = [fn EXCEPT !.done = TRUE, !.out = mostActiveOf(counts)]
    /\ UNCHANGED <<chat_messages, cap, sync>>

InitMostActive ==
    /\ msg = [h \in Handlers |-> MsgIdle]
    /\ lazy = LazyIdle
    /\ retry = RetryIdle
    /\ idx = [j \in SyncRuns |-> IdxIdle]
    /\ cmd = CmdIdle
    /\ shut = ShutIdle
    /\ send = [m \in Sends |-> SendIdle]
    /\ chk = NoCheck
    /\ OrchIdle
    /\ DigestIdle
    /\ SchedIdle
    /\ cap = [c \in Cap |-> CapIdle]
    /\ sync = [j \in SyncRuns |-> SyncIdle]
    /\ chat_messages \in DayTables
    /\ \E c \in MessageChats :
          fn = Call("GetMostActiveUser", [chatID |-> c, date |-> Yesterday])

NextMostActive ==
    GetMostActiveUser
        /\ UNCHANGED <<orchVars, chk, digestVars, schedVars, callVars, msg>>

SpecMostActive == InitMostActive /\ [][NextMostActive]_vars

\* Messages of the author in the chat on the day asked for.
DayCount(u) ==
    Cardinality({i \in DOMAIN chat_messages :
                    /\ chat_messages[i].chat_id = fn.in.chatID
                    /\ chat_messages[i].user_id = u})

\* C35: GetMostActiveUser returns an author whose message count in the chat
\* on the day is the largest, and of the authors with that count the one
\* with the smallest id.
C35_MostActiveIsSmallestOfTheBest ==
    (fn.name = "GetMostActiveUser" /\ fn.done /\ fn.out # <<>>)
        => /\ fn.out[1].MessageCount = DayCount(fn.out[1].UserID)
           /\ \A u \in Authors : DayCount(u) <= fn.out[1].MessageCount
           /\ \A u \in Authors :
                 DayCount(u) = fn.out[1].MessageCount => fn.out[1].UserID <= u

----------------------------------------------------------------------------
(* normalizeChatID *)

\* int64 is scaled down to IntBits bits, and the two constants of the
\* function with it: supergroupFloor stands for 1000000000 and botApiPrefix
\* for 1000000000000, so that, as in int64, the floor is far below the
\* prefix and the prefix far below the largest integer.
IntBits == 8
supergroupFloor == 4
botApiPrefix == 16

MinInt == 0 - 2^(IntBits - 1)
MaxInt == 2^(IntBits - 1) - 1
IntN == MinInt..MaxInt

\* Go's signed arithmetic: the result wraps around.
Wrap(x) == ((x - MinInt) % 2^IntBits) + MinInt

\* The function returning -chatID for a supergroup id.
normalizeChatID_Negate(chatID) ==
    IF chatID < 0 THEN chatID
    ELSE IF chatID > supergroupFloor THEN Wrap(0 - chatID)
    ELSE chatID

normalizeChatID(chatID) ==
    IF chatID < 0 THEN chatID
    ELSE IF chatID > supergroupFloor THEN Wrap(Wrap(0 - botApiPrefix) - chatID)
    ELSE chatID

\* normalizeChatID applied to the id, and then to what it returned.
normalizeChatID_Call ==
    /\ fn.name = "normalizeChatID"
    /\ Len(fn.out) < 2
    /\ fn' = [fn EXCEPT
                 !.out = Append(@, normalizeChatID(IF @ = <<>> THEN fn.in ELSE @[Len(@)])),
                 !.done = Len(fn.out) = 1]

InitNormalize ==
    /\ AllButFnIdle
    /\ OrchIdle
    /\ \E x \in IntN : fn = Call("normalizeChatID", x)

NextNormalize ==
    normalizeChatID_Call
        /\ UNCHANGED <<orchVars, chk, captureVars, digestVars, schedVars, callVars, msg>>

SpecNormalize == InitNormalize /\ [][NextNormalize]_vars

\* C36 as stated: for every id x, normalizeChatID(normalizeChatID(x)) =
\* normalizeChatID(x); an x greater than the floor goes to -(prefix + x); a
\* negative x is returned as it is.
C36_NormalizeEveryId ==
    (fn.name = "normalizeChatID" /\ fn.done)
        => /\ fn.out[2] = fn.out[1]
           /\ fn.in > supergroupFloor => fn.out[1] = 0 - (botApiPrefix + fn.in)
           /\ fn.in < 0 => fn.out[1] = fn.in

\* The ids whose image -(prefix + x) is an integer of the width.
Representable(x) == 0 - (botApiPrefix + x) >= MinInt

\* C36, for the ids whose image fits the integer width: normalizeChatID is
\* idempotent, takes an x greater than the floor to -(prefix + x), and
\* returns a negative x as it is.
C36_NormalizeRepresentableIds ==
    (fn.name = "normalizeChatID" /\ fn.done /\ Representable(fn.in))
        => /\ fn.out[2] = fn.out[1]
           /\ fn.in > supergroupFloor => fn.out[1] = 0 - (botApiPrefix + fn.in)
           /\ fn.in < 0 => fn.out[1] = fn.in

\* A supergroup id has been normalized twice.
C36_Witness ==
    /\ fn.name = "normalizeChatID"
    /\ fn.done
    /\ fn.in > supergroupFloor
    /\ Representable(fn.in)
    /\ fn.out = <<0 - (botApiPrefix + fn.in), 0 - (botApiPrefix + fn.in)>>

----------------------------------------------------------------------------
(* The quota read on the answer path *)

\* Request r passes the quota check in this step.
Admitted(r) ==
    /\ req[r].pc = "idle"
    /\ req'[r].pc \notin {"idle", "noquestion", "denied"}

\* C37: no request is admitted while the stored counters of its author for
\* the day are at or above both caps, whatever the quota read came to.
C37_ReadFailureDoesNotAdmit ==
    [][\A r \in Req :
          Admitted(r)
              => ~(/\ daily_limits[req'[r].user][today].pro >= ProDailyLimit
                   /\ daily_limits[req'[r].user][today].flash >= FlashDailyLimit)]_vars

----------------------------------------------------------------------------
(* The digest row and the post *)

\* C38: when a processChatSummaryWithForce call without force that wrote the
\* daily_summaries row of its chat and date has returned, the digest has been
\* posted to the chat, or the row is there no more (so that a later call
\* without force does not skip the chat).
C38_RowImpliesPosted ==
    \A t \in Dig :
        (/\ ~dig[t].force
         /\ dig[t].wrote
         /\ dig[t].pc \in {"done", "failed"})
            => \/ \E t2 \in Dig : dig[t2].chatID = dig[t].chatID /\ dig[t2].sent
               \/ ~SummaryExistsForDate(daily_summaries, dig[t].chatID, Yesterday)

----------------------------------------------------------------------------
(* summary.Generator.GenerateSummary and buildSummaryPrompt *)

\* The day's list is scaled down: maxMessagesInPrompt stands for 500 and
\* halfMessagesInPrompt for the 250 taken from each end.
maxMessagesInPrompt == 4
halfMessagesInPrompt == 2
MaxMessages == 6

\* The lists GetMessagesForDate can return: the messages are told apart by
\* their text.
MessageLists == UNION {[1..n -> {"a", "b"}] : n \in 0..MaxMessages}

\* Go's append(s[:h], t...) on the array that backs s, which has cap
\* elements of which the caller's slice shows the first Len(array): when h +
\* len(t) fits the capacity t is copied into the array after the first h
\* elements (as by memmove), otherwise a new array is allocated and the old
\* one is left alone.  Returns the new slice and the caller's slice.
append(array, capacity, h, t) ==
    IF h + Len(t) <= capacity
    THEN [slice |-> SubSeq(array, 1, h) \o t,
          array |-> [i \in 1..Len(array) |->
                        IF i > h /\ i <= h + Len(t) THEN t[i - h] ELSE array[i]]]
    ELSE [slice |-> SubSeq(array, 1, h) \o t, array |-> array]

\* buildSummaryPrompt: the messages written to the prompt, and the caller's
\* list after the call.  The capacity of the caller's slice is at least its
\* length.
buildSummaryPrompt(messages, capacity) ==
    IF Len(messages) > maxMessagesInPrompt
    THEN LET a == append(messages, capacity, halfMessagesInPrompt,
                         SubSeq(messages, Len(messages) - halfMessagesInPrompt + 1,
                                Len(messages)))
         IN  [messagesToUse |-> a.slice, messages |-> a.array, note |-> TRUE]
    ELSE [messagesToUse |-> messages, messages |-> messages, note |-> FALSE]

\* GenerateSummary: no call for an empty list; otherwise generateTopics
\* builds the prompt and asks the model, which answers or fails.
GenerateSummary ==
    /\ fn.name = "GenerateSummary"
    /\ ~fn.done
    /\ \E llmOk \in BOOLEAN :
        LET messages == fn.in.messages
            built == buildSummaryPrompt(messages, fn.in.capacity)
        IN  fn' = [fn EXCEPT
                !.done = TRUE,
                !.out = IF Len(messages) = 0
                        THEN [messages |-> messages, prompt |-> <<>>, err |-> FALSE]
                        ELSE [messages |-> built.messages,
                              prompt |-> built.messagesToUse,
                              err |-> ~llmOk]]

InitGenerateSummary ==
    /\ AllButFnIdle
    /\ OrchIdle
    /\ \E messages \in MessageLists, spare \in 0..1 :
          fn = Call("GenerateSummary",
                    [messages |-> messages, capacity |-> Len(messages) + spare])

NextGenerateSummary ==
    GenerateSummary
        /\ UNCHANGED <<orchVars, chk, captureVars, digestVars, schedVars, callVars, msg>>

SpecGenerateSummary == InitGenerateSummary /\ [][NextGenerateSummary]_vars

\* C40: when GenerateSummary has returned, the caller's list holds the
\* messages it held before the call, in the same order, also when it has
\* more than maxMessagesInPrompt messages.
C40_MessageListUnchanged ==
    (fn.name = "GenerateSummary" /\ fn.done)
        => fn.out.messages = fn.in.messages
====
